---- MODULE Spec2Model ----
(***************************************************************************)
(* A model of rlox, a tree-walking Lox interpreter: the runner that drives *)
(* scan -> parse -> interpret, the error reporter's two flags, the scope   *)
(* arena (Environment) and the evaluator with its user functions.          *)
(*                                                                         *)
(* The evaluator is modelled big-step: each visit_* method of the source   *)
(* is an operator of the same name that takes the evaluator state st and   *)
(* returns [st, r], r being the Result of the method.  st holds            *)
(*   heap : the scopes, an arena indexed from 1 (Rc<RefCell<Environment>>),*)
(*   env  : the evaluator's current scope (Interpreter.env),               *)
(*   out  : the lines written to standard output,                          *)
(*   log  : a history of what the evaluator did (a ghost, not program      *)
(*          state),                                                        *)
(*   depth: the number of user calls in progress (ghost).                  *)
(* A Result is Ok(v), Err(RuntimeError) or Panic (an unwrap of None or of  *)
(* Err, which unwinds the whole process).                                  *)
(*                                                                         *)
(* Numbers are f64 in the source and integers here; tokens keep their type *)
(* and lexeme (the line is left out).                                      *)
(***************************************************************************)
EXTENDS Integers, Sequences, FiniteSets, TLC

VARIABLES
    mode,               \* "file" (run_file) or "prompt" (run_prompt)
    pc,                 \* the runner's position
    source,             \* the source string handed to Runner::run
    had_error,          \* ErrorReporter.has_error
    had_runtime_error,  \* ErrorReporter.has_runtime_error
    statements,         \* the statements Parser::parse returned
    ip,                 \* interpret's loop index: statements executed so far
    istate,             \* the evaluator state st of the one Interpreter
    exit_code,          \* the code given to process::exit, -1 while there is none
    lines,              \* prompt mode: lines read so far
    stage,              \* ghost: which stages of the current run were started
    raised,             \* ghost: the runtime errors raised in the current run
    eheap,              \* SpecEnv: an arena of scopes
    eop,                \* SpecEnv: the last Environment operation and its result
    scanner,            \* SpecScan: the Scanner
    parser,             \* SpecParse: the Parser
    eqop,               \* SpecEq: the last comparison and its result
    session             \* SpecPrompt: the lines read at the prompt so far

vars == <<mode, pc, source, had_error, had_runtime_error, statements, ip,
          istate, exit_code, lines, stage, raised, eheap, eop,
          scanner, parser, eqop, session>>

-----------------------------------------------------------------------------
(* Bounds of the model *)

\* prompt mode reads at most this many non-empty lines
MaxLines == 2
\* the values a scenario family is instantiated with are 0..MaxVal
MaxVal == 2
\* SpecEnv builds arenas of at most this many scopes
MaxScopes == 2
\* SpecScan scans every text of at most this many chars
MaxSrc == 3

-----------------------------------------------------------------------------
(* Option<T>: None is <<>>, Some(x) is <<x>> *)

None == <<>>
Some(x) == <<x>>
IsSome(o) == Len(o) = 1
Unwrap(o) == o[1]

-----------------------------------------------------------------------------
(* Runtime values: enum Object *)

Number(n) == [t |-> "Number", n |-> n]
String(s) == [t |-> "String", s |-> s]
Boolean(b) == [t |-> "Boolean", b |-> b]
Nil == [t |-> "Nil"]
Callable(f) == [t |-> "Callable", f |-> f]
\* an f64 that is not an integer (a quotient, an infinity, NaN): kept opaque
NumberOther == [t |-> "NumberOther"]
\* the () of a statement's Ok(())
Unit == [t |-> "Unit"]

\* enum Function
Native(identifier, arity) ==
    [kind |-> "Native", identifier |-> identifier, arity |-> arity]
User(identifier, parameters, body, closure) ==
    [kind |-> "User", identifier |-> identifier, parameters |-> parameters,
     body |-> body, closure |-> closure]

\* Function::arity
arity(f) == IF f.kind = "Native" THEN f.arity ELSE Len(f.parameters)

\* impl From<Object> for bool (and From<&Object>)
bool_from(object) ==
    CASE object.t = "Boolean" -> object.b
      [] object.t = "Nil" -> FALSE
      [] OTHER -> TRUE

Digit(d) ==
    CASE d = 0 -> "0" [] d = 1 -> "1" [] d = 2 -> "2" [] d = 3 -> "3"
      [] d = 4 -> "4" [] d = 5 -> "5" [] d = 6 -> "6" [] d = 7 -> "7"
      [] d = 8 -> "8" [] d = 9 -> "9"

RECURSIVE NatToString(_)
NatToString(n) ==
    IF n < 10 THEN Digit(n) ELSE NatToString(n \div 10) \o Digit(n % 10)

\* f64::to_string of an integral value: 3.0 is written 3
f64_to_string(n) == IF n < 0 THEN "-" \o NatToString(-n) ELSE NatToString(n)

\* {:?} of an integral f64: 3.0 is written 3.0
f64_debug(n) == f64_to_string(n) \o ".0"

\* impl From<Object> for String
string_from(object) ==
    CASE object.t = "Number" -> f64_to_string(object.n)
      [] object.t = "NumberOther" -> "<f64>"
      [] object.t = "Boolean" -> (IF object.b THEN "true" ELSE "false")
      [] object.t = "String" -> object.s
      [] object.t = "Nil" -> "nil"
      [] object.t = "Callable" -> "<native fn>"

\* impl Display for Function
function_display(f) ==
    IF f.kind = "Native"
    THEN "<native fn " \o f.identifier \o ">"
    ELSE "<fn " \o f.identifier \o ">"

\* impl Display for Object: a Callable by its Function, the rest by the
\* derived Debug
object_display(object) ==
    CASE object.t = "Callable" -> function_display(object.f)
      [] object.t = "Number" -> "Number(" \o f64_debug(object.n) \o ")"
      [] object.t = "NumberOther" -> "Number(<f64>)"
      [] object.t = "String" -> "String(\"" \o object.s \o "\")"
      [] object.t = "Boolean" ->
            "Boolean(" \o (IF object.b THEN "true" ELSE "false") \o ")"
      [] object.t = "Nil" -> "Nil"

\* impl PartialEq for Object
object_eq(l, r) ==
    CASE l.t = "Number" /\ r.t = "Number" -> l.n = r.n
      [] l.t = "String" /\ r.t = "String" -> l.s = r.s
      [] l.t = "Boolean" /\ r.t = "Boolean" -> l.b = r.b
      [] l.t = "Nil" /\ r.t = "Nil" -> TRUE
      [] OTHER -> FALSE

-----------------------------------------------------------------------------
(* Results *)

Ok(v) == [k |-> "Ok", v |-> v]
\* struct RuntimeError { token, message, value }
RuntimeError(value, token, message) ==
    [k |-> "Err", value |-> value, token |-> token, message |-> message]
\* a panic: the process unwinds; err is the RuntimeError that was unwrapped
Panic(why, err) == [k |-> "Panic", why |-> why, err |-> err]

IsOk(r) == r.k = "Ok"
IsErr(r) == r.k = "Err"
IsPanic(r) == r.k = "Panic"
\* a RuntimeError that carries a return (value: Some) and one that is an error
IsReturnCarrier(r) == r.k = "Err" /\ IsSome(r.value)
IsRealError(r) == r.k = "Err" /\ ~IsSome(r.value)

-----------------------------------------------------------------------------
(* Environment: a scope is [enclosing, values]; enclosing is the index of  *)
(* the enclosing scope in the arena, 0 for None; values maps a lexeme to   *)
(* Option<Object>.                                                         *)

\* Environment::new
Environment_new(enclosing) == [enclosing |-> enclosing, values |-> <<>>]

Has(scope, lexeme) == lexeme \in DOMAIN scope.values

\* Environment::uninitialized
uninitialized(token) ==
    RuntimeError(None, token, "Uninitialized variable '" \o token.lexeme \o "'.")

\* Environment::undefined
undefined(token) ==
    RuntimeError(None, token, "Undefined variable '" \o token.lexeme \o "'.")

\* Environment::define on scope s of arena heap
define(heap, s, identifier, value) ==
    [heap EXCEPT ![s].values = (identifier.lexeme :> value) @@ @]

\* Environment::assign on scope s: [heap, r]
RECURSIVE assign(_, _, _, _)

\* an assign that declares the name in the outermost scope when no scope of
\* the chain has it
assign_declares_when_absent(heap, s, identifier, value) ==
    IF Has(heap[s], identifier.lexeme)
    THEN [heap |-> [heap EXCEPT ![s].values = (identifier.lexeme :> value) @@ @],
          r |-> Ok(Unwrap(value))]
    ELSE IF heap[s].enclosing # 0
         THEN assign(heap, heap[s].enclosing, identifier, value)
         ELSE [heap |-> [heap EXCEPT ![s].values = (identifier.lexeme :> value) @@ @],
               r |-> Ok(Unwrap(value))]

assign(heap, s, identifier, value) ==
    IF Has(heap[s], identifier.lexeme)
    THEN [heap |-> [heap EXCEPT ![s].values = (identifier.lexeme :> value) @@ @],
          r |-> Ok(Unwrap(value))]
    ELSE IF heap[s].enclosing # 0
         THEN assign(heap, heap[s].enclosing, identifier, value)
         ELSE [heap |-> heap, r |-> undefined(identifier)]

\* Environment::get on scope s
RECURSIVE get(_, _, _)

\* a get that takes a binding without a value for no binding at all and
\* looks on in the enclosing scope
get_skips_uninitialized(heap, s, identifier) ==
    IF Has(heap[s], identifier.lexeme)
       /\ (IsSome(heap[s].values[identifier.lexeme]) \/ heap[s].enclosing = 0)
    THEN IF IsSome(heap[s].values[identifier.lexeme])
         THEN Ok(Unwrap(heap[s].values[identifier.lexeme]))
         ELSE uninitialized(identifier)
    ELSE IF heap[s].enclosing # 0
         THEN get(heap, heap[s].enclosing, identifier)
         ELSE undefined(identifier)

get(heap, s, identifier) ==
    IF Has(heap[s], identifier.lexeme)
    THEN IF IsSome(heap[s].values[identifier.lexeme])
         THEN Ok(Unwrap(heap[s].values[identifier.lexeme]))
         ELSE uninitialized(identifier)
    ELSE IF heap[s].enclosing # 0
         THEN get(heap, heap[s].enclosing, identifier)
         ELSE undefined(identifier)

-----------------------------------------------------------------------------
(* The AST: struct Token, enum Expr, enum Stmt *)

\* a token made by Scanner::add_token carries the empty lexeme
Tok(token_type) == [token_type |-> token_type, lexeme |-> ""]
\* a token made by Scanner::add_token_literal carries its source slice
Ident(lexeme) == [token_type |-> "Identifier", lexeme |-> lexeme]
Keyword(token_type, lexeme) == [token_type |-> token_type, lexeme |-> lexeme]

LiteralExpr(literal) == [e |-> "Literal", literal |-> literal]
VariableExpr(token) == [e |-> "Variable", token |-> token]
AssignExpr(token, value) == [e |-> "Assign", token |-> token, value |-> value]
BinaryExpr(left, operator, right) ==
    [e |-> "Binary", left |-> left, operator |-> operator, right |-> right]
LogicalExpr(left, operator, right) ==
    [e |-> "Logical", left |-> left, operator |-> operator, right |-> right]
UnaryExpr(operator, right) ==
    [e |-> "Unary", operator |-> operator, right |-> right]
GroupingExpr(expr) == [e |-> "Grouping", expr |-> expr]
CallExpr(callee, paren, args) ==
    [e |-> "Call", callee |-> callee, paren |-> paren, args |-> args]

PrintStmt(expr) == [s |-> "Print", expr |-> expr]
ExpressionStmt(expr) == [s |-> "Expression", expr |-> expr]
\* initializer is an Option<Expr>
VarDeclaration(token, initializer) ==
    [s |-> "VarDeclaration", token |-> token, initializer |-> initializer]
FunctionStmt(token, parameters, body) ==
    [s |-> "Function", token |-> token, parameters |-> parameters, body |-> body]
BlockStmt(stmts) == [s |-> "Block", stmts |-> stmts]
\* stmt_else is an Option<Stmt>
IfStmt(expr, stmt_then, stmt_else) ==
    [s |-> "If", expr |-> expr, stmt_then |-> stmt_then, stmt_else |-> stmt_else]
WhileStmt(expr, stmt) == [s |-> "While", expr |-> expr, stmt |-> stmt]
ReturnStmt(token, expr) == [s |-> "Return", token |-> token, expr |-> expr]

-----------------------------------------------------------------------------
(* The evaluator: struct Interpreter *)

\* Interpreter.globals: the first scope of the arena
Globals == 1

\* Interpreter::new: globals holds clock, and env is globals
Interpreter_new ==
    [heap |-> <<[enclosing |-> 0,
                 values |-> ("clock" :> Some(Callable(Native("clock", 0))))]>>,
     env |-> Globals,
     out |-> <<>>,
     log |-> <<>>,
     depth |-> 0]

\* the history: what the evaluator did, in order
Logged(st, event) == [st EXCEPT !.log = Append(@, event)]

\* Interpreter::non_numeric_operand_error
non_numeric_operand_error(token) ==
    RuntimeError(None, token, "operands must be numeric for operation")

\* Interpreter::math_operation
math_operation(left_value, right_value, token) ==
    IF left_value.t = "Number" /\ right_value.t = "Number"
    THEN CASE token.token_type = "Plus" -> Ok(Number(left_value.n + right_value.n))
           [] token.token_type = "Minus" -> Ok(Number(left_value.n - right_value.n))
           [] token.token_type = "Star" -> Ok(Number(left_value.n * right_value.n))
           [] token.token_type = "Slash" ->
                Ok(IF right_value.n # 0 /\ left_value.n % right_value.n = 0
                   THEN Number(left_value.n \div right_value.n)
                   ELSE NumberOther)
           [] OTHER -> RuntimeError(None, token, "unknown math operation")
    ELSE non_numeric_operand_error(token)

\* a comparison arm of visit_binary_expr
compare(left_val, right_val, operator, holds) ==
    IF left_val.t = "Number" /\ right_val.t = "Number"
    THEN Ok(Boolean(holds))
    ELSE non_numeric_operand_error(operator)

\* a match whose Plus arm is math_operation, like the other arithmetic arms
binary_op_plus_numeric(left_val, operator, right_val) ==
    CASE operator.token_type \in {"Plus", "Minus", "Star", "Slash"} ->
            math_operation(left_val, right_val, operator)
      [] operator.token_type \in {"Greater", "GreaterEqual", "Less", "LessEqual"} ->
            compare(left_val, right_val, operator,
                    left_val.t = "Number" /\ right_val.t = "Number"
                      /\ CASE operator.token_type = "Greater" -> left_val.n > right_val.n
                           [] operator.token_type = "GreaterEqual" ->
                                left_val.n >= right_val.n
                           [] operator.token_type = "Less" -> left_val.n < right_val.n
                           [] OTHER -> left_val.n <= right_val.n)
      [] operator.token_type = "BangEqual" ->
            Ok(Boolean(~object_eq(left_val, right_val)))
      [] operator.token_type = "EqualEqual" ->
            Ok(Boolean(object_eq(left_val, right_val)))
      [] OTHER -> Panic("todo", None)

\* the match of visit_binary_expr on the operator, both operands evaluated
binary_op(left_val, operator, right_val) ==
    CASE operator.token_type \in {"Minus", "Star", "Slash"} ->
            math_operation(left_val, right_val, operator)
      [] operator.token_type = "Plus" ->
            IF left_val.t = "Number" /\ right_val.t = "Number"
            THEN Ok(Number(left_val.n + right_val.n))
            ELSE Ok(String(string_from(left_val) \o string_from(right_val)))
      [] operator.token_type = "Greater" ->
            compare(left_val, right_val, operator,
                    left_val.t = "Number" /\ right_val.t = "Number"
                      /\ left_val.n > right_val.n)
      [] operator.token_type = "GreaterEqual" ->
            compare(left_val, right_val, operator,
                    left_val.t = "Number" /\ right_val.t = "Number"
                      /\ left_val.n >= right_val.n)
      [] operator.token_type = "Less" ->
            compare(left_val, right_val, operator,
                    left_val.t = "Number" /\ right_val.t = "Number"
                      /\ left_val.n < right_val.n)
      [] operator.token_type = "LessEqual" ->
            compare(left_val, right_val, operator,
                    left_val.t = "Number" /\ right_val.t = "Number"
                      /\ left_val.n <= right_val.n)
      [] operator.token_type = "BangEqual" ->
            Ok(Boolean(~object_eq(left_val, right_val)))
      [] operator.token_type = "EqualEqual" ->
            Ok(Boolean(object_eq(left_val, right_val)))
      [] OTHER -> Panic("todo", None)

\* the match of visit_unary_expr on the operator, the operand evaluated
unary_op(operator, right_expr_value) ==
    CASE operator.token_type = "Minus" ->
            IF right_expr_value.t = "Number"
            THEN Ok(Number(-right_expr_value.n))
            ELSE non_numeric_operand_error(operator)
      [] operator.token_type = "Bang" ->
            Ok(Boolean(~bool_from(right_expr_value)))
      [] OTHER ->
            RuntimeError(None, operator, "unexpected token on unary expression")

\* visit_literal_expr
visit_literal_expr(literal, st) == [st |-> st, r |-> Ok(literal)]

\* visit_variable_expr
visit_variable_expr(identifier, st) ==
    [st |-> st, r |-> get(st.heap, st.env, identifier)]

\* a test that short-circuits or alone
short_circuits_or_only(operator, boolean_value) ==
    operator.token_type = "Or" /\ boolean_value

\* the short-circuit test of visit_logical_expr
short_circuits(operator, boolean_value) ==
    \/ operator.token_type = "Or" /\ boolean_value
    \/ operator.token_type = "And" /\ ~boolean_value

\* the scope a call's parameter scope encloses: Function::call passes
\* _interpreter.globals to Environment::new
call_enclosing(f, st) == Globals

\* the loop of Function::call that defines the parameters in env
RECURSIVE define_parameters(_, _, _, _)
define_parameters(env, parameters, arguments, idx) ==
    IF idx > Len(parameters) THEN env
    ELSE define_parameters(
            [env EXCEPT !.values =
                (parameters[idx].lexeme :>
                    (IF idx <= Len(arguments) THEN Some(arguments[idx]) ELSE None))
                @@ @],
            parameters, arguments, idx + 1)

\* what Function::call makes of execute_block's result:
\*   if let Err(err) = ... { return Ok(err.value.unwrap()); }  Ok(Object::Nil)
call_result(body_result) ==
    CASE IsPanic(body_result) -> body_result
      [] IsErr(body_result) ->
            IF IsSome(body_result.value)
            THEN Ok(Unwrap(body_result.value))
            ELSE Panic("unwrap on None", Some(body_result))
      [] OTHER -> Ok(Nil)

\* a guard that puts prev_env back only when the block ended normally
guard_drop_on_ok_only(st, prev_env, r) ==
    IF IsOk(r) THEN [st EXCEPT !.env = prev_env] ELSE st

\* the scopeguard of execute_block: when the guard is dropped, on every way
\* out of execute_block (r is how it ended), env is prev_env again
guard_drop(st, prev_env, r) == [st EXCEPT !.env = prev_env]

\* a loop that goes on after a RuntimeError (an error or a return)
loop_continues_after_err(r) == ~IsPanic(r)

\* the ? of execute_block's loop: whether the loop goes on to the next
\* statement after one that ended with r
loop_continues(r) == IsOk(r)

RECURSIVE evaluate(_, _)
RECURSIVE execute(_, _)
RECURSIVE execute_stmts(_, _, _)
RECURSIVE execute_block(_, _, _)
RECURSIVE evaluate_args(_, _, _, _)
RECURSIVE function_call(_, _, _)
RECURSIVE visit_while_stmt(_, _, _)

\* visit_binary_expr
visit_binary_expr(left, operator, right, st) ==
    LET L == evaluate(left, st) IN
    IF ~IsOk(L.r) THEN L
    ELSE LET R == evaluate(right, L.st) IN
         IF ~IsOk(R.r) THEN R
         ELSE [st |-> R.st, r |-> binary_op(L.r.v, operator, R.r.v)]

\* visit_unary_expr
visit_unary_expr(operator, right, st) ==
    LET R == evaluate(right, st) IN
    IF ~IsOk(R.r) THEN R
    ELSE [st |-> R.st, r |-> unary_op(operator, R.r.v)]

\* visit_assign_expr
visit_assign_expr(identifier, value, st) ==
    LET V == evaluate(value, st) IN
    IF ~IsOk(V.r) THEN V
    ELSE LET A == assign(V.st.heap, V.st.env, identifier, Some(V.r.v)) IN
         [st |-> [V.st EXCEPT !.heap = A.heap], r |-> A.r]

\* visit_logical_expr
visit_logical_expr(left, operator, right, st) ==
    LET L == evaluate(left, st) IN
    IF ~IsOk(L.r) THEN L
    ELSE IF short_circuits(operator, bool_from(L.r.v)) THEN L
         ELSE evaluate(right, L.st)

\* the loop of visit_call_expr over args: r is Ok of the results so far
evaluate_args(args, idx, st, args_results) ==
    IF idx > Len(args) THEN [st |-> st, r |-> Ok(args_results)]
    ELSE LET A == evaluate(args[idx], st) IN
         IF ~IsOk(A.r) THEN A
         ELSE evaluate_args(args, idx + 1, A.st, Append(args_results, A.r.v))

\* Function::call
function_call(f, st, arguments) ==
    IF f.kind = "Native"
    THEN [st |-> st, r |-> Ok(NumberOther)]
    ELSE IF f.body.s = "Block"
    THEN LET env == define_parameters(
                        Environment_new(call_enclosing(f, st)),
                        f.parameters, arguments, 1)
             entered == Logged([st EXCEPT !.depth = @ + 1],
                               [ev |-> "call", fn |-> f.identifier.lexeme,
                                closure |-> f.closure,
                                enclosing |-> env.enclosing,
                                prev |-> st.env,
                                depth |-> st.depth + 1])
             B == execute_block(f.body.stmts, env, entered)
             r == call_result(B.r)
         IN  [st |-> Logged([B.st EXCEPT !.depth = st.depth],
                            [ev |-> "call_exit", fn |-> f.identifier.lexeme,
                             depth |-> st.depth + 1, prev |-> st.env,
                             env |-> B.st.env, body |-> B.r, r |-> r]),
              r |-> r]
    ELSE [st |-> st,
          r |-> RuntimeError(None, f.identifier,
                    "[UNREACHABLE] Function statements must be a block.")]

\* a call that compares the number of arguments with the arity of a user
\* function only
visit_call_expr_native_unchecked(callee, paren, args, st) ==
    LET C == evaluate(callee, st) IN
    IF ~IsOk(C.r) THEN C
    ELSE LET A == evaluate_args(args, 1, C.st, <<>>) IN
         IF ~IsOk(A.r) THEN A
         ELSE IF C.r.v.t = "Callable"
              THEN IF C.r.v.f.kind = "User" /\ Len(A.r.v) # arity(C.r.v.f)
                   THEN [st |-> A.st,
                         r |-> RuntimeError(None, paren,
                                 "Expected " \o NatToString(arity(C.r.v.f))
                                 \o " arguments but got "
                                 \o NatToString(Len(A.r.v)) \o ".")]
                   ELSE function_call(C.r.v.f, A.st, A.r.v)
              ELSE [st |-> A.st,
                    r |-> RuntimeError(None, paren,
                            "Can only call functions or classes")]

\* a call that makes the callable check and the arity check before it
\* evaluates the arguments
visit_call_expr_checks_first(callee, paren, args, st) ==
    LET C == evaluate(callee, st) IN
    IF ~IsOk(C.r) THEN C
    ELSE IF C.r.v.t # "Callable"
         THEN [st |-> C.st,
               r |-> RuntimeError(None, paren,
                       "Can only call functions or classes")]
         ELSE IF Len(args) # arity(C.r.v.f)
              THEN [st |-> C.st,
                    r |-> RuntimeError(None, paren,
                            "Expected " \o NatToString(arity(C.r.v.f))
                            \o " arguments but got "
                            \o NatToString(Len(args)) \o ".")]
              ELSE LET A == evaluate_args(args, 1, C.st, <<>>) IN
                   IF ~IsOk(A.r) THEN A
                   ELSE function_call(C.r.v.f, A.st, A.r.v)

\* visit_call_expr
visit_call_expr(callee, paren, args, st) ==
    LET C == evaluate(callee, st) IN
    IF ~IsOk(C.r) THEN C
    ELSE LET A == evaluate_args(args, 1, C.st, <<>>) IN
         IF ~IsOk(A.r) THEN A
         ELSE IF C.r.v.t = "Callable"
              THEN IF Len(A.r.v) # arity(C.r.v.f)
                   THEN [st |-> A.st,
                         r |-> RuntimeError(None, paren,
                                 "Expected " \o NatToString(arity(C.r.v.f))
                                 \o " arguments but got "
                                 \o NatToString(Len(A.r.v)) \o ".")]
                   ELSE function_call(C.r.v.f, A.st, A.r.v)
              ELSE [st |-> A.st,
                    r |-> RuntimeError(None, paren,
                            "Can only call functions or classes")]

\* Expr::accept, as Interpreter::evaluate calls it.  A GroupingExpr hands
\* itself, not its inner expression, to visit_grouping_expr, which evaluates
\* what it is given: the recursion never ends and the stack overflows
evaluate(expr, st) ==
    CASE expr.e = "Literal" -> visit_literal_expr(expr.literal, st)
      [] expr.e = "Binary" ->
            visit_binary_expr(expr.left, expr.operator, expr.right, st)
      [] expr.e = "Grouping" -> [st |-> st, r |-> Panic("stack overflow", None)]
      [] expr.e = "Unary" -> visit_unary_expr(expr.operator, expr.right, st)
      [] expr.e = "Variable" -> visit_variable_expr(expr.token, st)
      [] expr.e = "Assign" -> visit_assign_expr(expr.token, expr.value, st)
      [] expr.e = "Logical" ->
            visit_logical_expr(expr.left, expr.operator, expr.right, st)
      [] expr.e = "Call" ->
            visit_call_expr(expr.callee, expr.paren, expr.args, st)

\* how a Result ended, for the history
How(r) ==
    CASE IsOk(r) -> "normal"
      [] IsReturnCarrier(r) -> "return"
      [] IsRealError(r) -> "error"
      [] OTHER -> "panic"

\* visit_print_stmt
visit_print_stmt(expr, st) ==
    LET V == evaluate(expr, st) IN
    IF ~IsOk(V.r) THEN V
    ELSE [st |-> [V.st EXCEPT !.out = Append(@, object_display(V.r.v))],
          r |-> Ok(Unit)]

\* visit_expression_stmt
visit_expression_stmt(expr, st) ==
    LET V == evaluate(expr, st) IN
    IF ~IsOk(V.r) THEN V ELSE [st |-> V.st, r |-> Ok(Unit)]

\* a declaration that defines the name without a value before it evaluates
\* the initializer
visit_var_declaration_stmt_declares_first(identifier, initializer, st) ==
    LET declared == [st EXCEPT !.heap = define(st.heap, st.env, identifier, None)]
    IN  IF IsSome(initializer)
        THEN LET E == evaluate(Unwrap(initializer), declared) IN
             IF ~IsOk(E.r) THEN E
             ELSE [st |-> [E.st EXCEPT !.heap =
                              define(E.st.heap, E.st.env, identifier, Some(E.r.v))],
                   r |-> Ok(Unit)]
        ELSE [st |-> declared, r |-> Ok(Unit)]

\* visit_var_declaration_stmt
visit_var_declaration_stmt(identifier, initializer, st) ==
    IF IsSome(initializer)
    THEN LET V == evaluate(Unwrap(initializer), st) IN
         IF ~IsOk(V.r) THEN V
         ELSE [st |-> [V.st EXCEPT !.heap =
                          define(V.st.heap, V.st.env, identifier, Some(V.r.v))],
               r |-> Ok(Unit)]
    ELSE [st |-> [st EXCEPT !.heap = define(st.heap, st.env, identifier, None)],
          r |-> Ok(Unit)]

\* a block that runs its statements in the current scope
visit_block_stmt_no_scope(stmts, st) == execute_stmts(stmts, 1, st)

\* visit_block_stmt
visit_block_stmt(stmts, st) ==
    LET B == execute_block(stmts, Environment_new(st.env), st) IN
    IF ~IsOk(B.r) THEN B ELSE [st |-> B.st, r |-> Ok(Unit)]

\* visit_if_stmt
visit_if_stmt(expr, stmt_then, stmt_else, st) ==
    LET C == evaluate(expr, st) IN
    IF ~IsOk(C.r) THEN C
    ELSE IF bool_from(C.r.v) THEN execute(stmt_then, C.st)
         ELSE IF IsSome(stmt_else) THEN execute(Unwrap(stmt_else), C.st)
              ELSE [st |-> C.st, r |-> Ok(Unit)]

\* visit_while_stmt
visit_while_stmt(expr, stmt, st) ==
    LET C == evaluate(expr, st) IN
    IF ~IsOk(C.r) THEN C
    ELSE IF bool_from(C.r.v)
         THEN LET S == execute(stmt, C.st) IN
              IF ~IsOk(S.r) THEN S ELSE visit_while_stmt(expr, stmt, S.st)
         ELSE [st |-> C.st, r |-> Ok(Unit)]

\* visit_function_stmt: the closure is the current scope
visit_function_stmt(identifier, parameters, body, st) ==
    [st |-> [st EXCEPT !.heap =
                define(st.heap, st.env, identifier,
                       Some(Callable(User(identifier, parameters, body, st.env))))],
     r |-> Ok(Unit)]

\* visit_return_stmt: the return travels as a RuntimeError with value Some
visit_return_stmt(token, expr, st) ==
    LET V == evaluate(expr, st) IN
    IF ~IsOk(V.r) THEN V
    ELSE [st |-> Logged(V.st, [ev |-> "return", depth |-> V.st.depth,
                               v |-> V.r.v]),
          r |-> RuntimeError(Some(V.r.v), token, "<fn return>")]

\* Stmt::accept, as Interpreter::execute calls it
execute(stmt, st0) ==
    LET st == Logged(st0, [ev |-> "stmt", s |-> stmt.s, depth |-> st0.depth]) IN
    CASE stmt.s = "Print" -> visit_print_stmt(stmt.expr, st)
      [] stmt.s = "Expression" -> visit_expression_stmt(stmt.expr, st)
      [] stmt.s = "VarDeclaration" ->
            visit_var_declaration_stmt(stmt.token, stmt.initializer, st)
      [] stmt.s = "Block" -> visit_block_stmt(stmt.stmts, st)
      [] stmt.s = "If" ->
            visit_if_stmt(stmt.expr, stmt.stmt_then, stmt.stmt_else, st)
      [] stmt.s = "While" -> visit_while_stmt(stmt.expr, stmt.stmt, st)
      [] stmt.s = "Function" ->
            visit_function_stmt(stmt.token, stmt.parameters, stmt.body, st)
      [] stmt.s = "Return" -> visit_return_stmt(stmt.token, stmt.expr, st)

\* the loop of execute_block: for stmt in stmts { this.execute(stmt)?; }
execute_stmts(stmts, idx, st) ==
    IF idx > Len(stmts) THEN [st |-> st, r |-> Ok(Unit)]
    ELSE LET S == execute(stmts[idx], st) IN
         IF loop_continues(S.r) THEN execute_stmts(stmts, idx + 1, S.st)
         ELSE S

\* the names the statements of a block declare themselves (not the ones
\* nested blocks declare): for the history
DirectlyDeclared(stmts) ==
    {stmts[i].token.lexeme :
        i \in {j \in DOMAIN stmts : stmts[j].s \in {"VarDeclaration", "Function"}}}

\* Interpreter::execute_block: env becomes a new scope of the arena, the
\* statements run, and the guard puts prev_env back
execute_block(stmts, env, st) ==
    LET prev_env == st.env
        inside == [st EXCEPT !.heap = Append(@, env), !.env = Len(st.heap) + 1]
        S == execute_stmts(stmts, 1, inside)
        after == guard_drop(S.st, prev_env, S.r)
    IN  [st |-> Logged(after, [ev |-> "block_exit", prev |-> prev_env,
                               scope |-> Len(st.heap) + 1,
                               env |-> after.env, how |-> How(S.r),
                               depth |-> after.depth,
                               declares |-> DOMAIN env.values
                                            \cup DirectlyDeclared(stmts),
                               names |-> DOMAIN after.heap[Len(st.heap) + 1].values]),
         r |-> S.r]

-----------------------------------------------------------------------------
(* The sources the runner is given.  A source is known by the statements   *)
(* its text parses to and by whether the text has a lexical or a syntactic *)
(* error (the scanner and the parser report it through the ErrorReporter). *)

Num(n) == LiteralExpr(Number(n))
Str(s) == LiteralExpr(String(s))
True == LiteralExpr(Boolean(TRUE))
V(name) == VariableExpr(Ident(name))
Set(name, value) == AssignExpr(Ident(name), value)
Bin(left, op, right) == BinaryExpr(left, Tok(op), right)
CallE(callee, args) == CallExpr(callee, Tok("RightParen"), args)
Var(name, value) == VarDeclaration(Ident(name), Some(value))
VarU(name) == VarDeclaration(Ident(name), None)
Fun(name, params, stmts) ==
    FunctionStmt(Ident(name), [i \in 1..Len(params) |-> Ident(params[i])],
                 BlockStmt(stmts))
Ret(expr) == ReturnStmt(Keyword("Return", "return"), expr)
If(expr, stmt_then) == IfStmt(expr, stmt_then, None)

\* print 1 + 2;
ProgAdd == <<PrintStmt(Bin(Num(1), "Plus", Num(2)))>>

\* fun make() { var i = 0; fun inc() { i = i + 1; return i; } return inc; }
\* var c = make(); print c(); print c(); print c();
ProgCounter ==
    <<Fun("make", <<>>,
          <<Var("i", Num(0)),
            Fun("inc", <<>>,
                <<ExpressionStmt(Set("i", Bin(V("i"), "Plus", Num(1)))),
                  Ret(V("i"))>>),
            Ret(V("inc"))>>),
      Var("c", CallE(V("make"), <<>>)),
      PrintStmt(CallE(V("c"), <<>>)),
      PrintStmt(CallE(V("c"), <<>>)),
      PrintStmt(CallE(V("c"), <<>>))>>

\* var x; print x;
ProgUninitialized == <<VarU("x"), PrintStmt(V("x"))>>

\* print y; print 1;
ProgUndefined == <<PrintStmt(V("y")), PrintStmt(Num(1))>>

\* fun f(a, b) { return a - b; } print f(5, 2); f(1);
ProgArity ==
    <<Fun("f", <<"a", "b">>, <<Ret(Bin(V("a"), "Minus", V("b")))>>),
      PrintStmt(CallE(V("f"), <<Num(5), Num(2)>>)),
      ExpressionStmt(CallE(V("f"), <<Num(1)>>))>>

\* { var a = 1; fun f() { print a; } f(); } print 2;
ProgBlockClosure ==
    <<BlockStmt(<<Var("a", Num(1)),
                  Fun("f", <<>>, <<PrintStmt(V("a"))>>),
                  ExpressionStmt(CallE(V("f"), <<>>))>>),
      PrintStmt(Num(2))>>

\* var a = 0; { var a = 1; fun f() { return a; } print f(); }
ProgShadowedClosure ==
    <<Var("a", Num(0)),
      BlockStmt(<<Var("a", Num(1)),
                  Fun("f", <<>>, <<Ret(V("a"))>>),
                  PrintStmt(CallE(V("f"), <<>>))>>)>>

\* var a = 0; fun f() { return a; } fun g() { var a = 1; return f(); }
\* print g();
ProgCallerScope ==
    <<Var("a", Num(0)),
      Fun("f", <<>>, <<Ret(V("a"))>>),
      Fun("g", <<>>, <<Var("a", Num(1)), Ret(CallE(V("f"), <<>>))>>),
      PrintStmt(CallE(V("g"), <<>>))>>

\* fun f() { print x; } f(); print 1;
ProgErrorInBody ==
    <<Fun("f", <<>>, <<PrintStmt(V("x"))>>),
      ExpressionStmt(CallE(V("f"), <<>>)),
      PrintStmt(Num(1))>>

\* fun f(n) { if (n > 0) { while (true) { { return n; } } } print "after"; }
\* print f(1); print f(0);
\* fun g(n) { var x = f(n); return x * 2; print "dead"; }  print g(3);
ProgNestedReturn ==
    <<Fun("f", <<"n">>,
          <<If(Bin(V("n"), "Greater", Num(0)),
               BlockStmt(<<WhileStmt(True,
                              BlockStmt(<<BlockStmt(<<Ret(V("n"))>>)>>))>>)),
            PrintStmt(Str("after"))>>),
      PrintStmt(CallE(V("f"), <<Num(1)>>)),
      PrintStmt(CallE(V("f"), <<Num(0)>>)),
      Fun("g", <<"n">>,
          <<Var("x", CallE(V("f"), <<V("n")>>)),
            Ret(Bin(V("x"), "Star", Num(2))),
            PrintStmt(Str("dead"))>>),
      PrintStmt(CallE(V("g"), <<Num(3)>>))>>

\* fun f(n) { return n + 1; print "dead"; }
\* fun g(n) { var x = f(n); print x; return f(x) * 2; print "dead"; }
\* print g(1);
ProgReturnInCall ==
    <<Fun("f", <<"n">>,
          <<Ret(Bin(V("n"), "Plus", Num(1))), PrintStmt(Str("dead"))>>),
      Fun("g", <<"n">>,
          <<Var("x", CallE(V("f"), <<V("n")>>)),
            PrintStmt(V("x")),
            Ret(Bin(CallE(V("f"), <<V("x")>>), "Star", Num(2))),
            PrintStmt(Str("dead"))>>),
      PrintStmt(CallE(V("g"), <<Num(1)>>))>>

\* fun h(n) { while (n < 3) { n = n + 1; if (n == 2) return n; } }
\* print h(0); print h(2);
ProgReturnInLoop ==
    <<Fun("h", <<"n">>,
          <<WhileStmt(Bin(V("n"), "Less", Num(3)),
               BlockStmt(<<ExpressionStmt(Set("n", Bin(V("n"), "Plus", Num(1)))),
                           If(Bin(V("n"), "EqualEqual", Num(2)),
                              Ret(V("n")))>>))>>),
      PrintStmt(CallE(V("h"), <<Num(0)>>)),
      PrintStmt(CallE(V("h"), <<Num(2)>>))>>

\* var a = 1; a = -"x"; print a;
ProgTypeError ==
    <<Var("a", Num(1)),
      ExpressionStmt(Set("a", UnaryExpr(Tok("Minus"), Str("x")))),
      PrintStmt(V("a"))>>

\* return 1; print 2;
ProgTopLevelReturn == <<Ret(Num(1)), PrintStmt(Num(2))>>

\* var a = 1; { var b = 2; { print c; } } print a;
ProgErrorInBlock ==
    <<Var("a", Num(1)),
      BlockStmt(<<Var("b", Num(2)), BlockStmt(<<PrintStmt(V("c"))>>)>>),
      PrintStmt(V("a"))>>

\* var i = 0; while (i < 2) { print i; i = i + 1; }
ProgWhile ==
    <<Var("i", Num(0)),
      WhileStmt(Bin(V("i"), "Less", Num(2)),
          BlockStmt(<<PrintStmt(V("i")),
                      ExpressionStmt(Set("i", Bin(V("i"), "Plus", Num(1))))>>))>>

\* var a = 1; { var a = v; print a; } print a;
ProgShadow(v) ==
    <<Var("a", Num(1)),
      BlockStmt(<<Var("a", Num(v)), PrintStmt(V("a"))>>),
      PrintStmt(V("a"))>>

\* var a = 1; { var b = 0; { a = v; } } print a;
ProgAssignOuter(v) ==
    <<Var("a", Num(1)),
      BlockStmt(<<Var("b", Num(0)),
                  BlockStmt(<<ExpressionStmt(Set("a", Num(v)))>>)>>),
      PrintStmt(V("a"))>>

\* { var b = v; print b; } print b;
ProgLeak(v) ==
    <<BlockStmt(<<Var("b", Num(v)), PrintStmt(V("b"))>>),
      PrintStmt(V("b"))>>

\* fun f() { { return 1; } }  { var a = f(); { print a; } { print c; } }
ProgAllExits ==
    <<Fun("f", <<>>, <<BlockStmt(<<Ret(Num(1))>>)>>),
      BlockStmt(<<Var("a", CallE(V("f"), <<>>)),
                  BlockStmt(<<PrintStmt(V("a"))>>),
                  BlockStmt(<<PrintStmt(V("c"))>>)>>)>>

Scenario(name, v, stmts) == [name |-> name, v |-> v, stmts |-> stmts]

Scenarios ==
    {Scenario("add", 0, ProgAdd),
     Scenario("counter", 0, ProgCounter),
     Scenario("uninitialized", 0, ProgUninitialized),
     Scenario("undefined", 0, ProgUndefined),
     Scenario("arity", 0, ProgArity),
     Scenario("block_closure", 0, ProgBlockClosure),
     Scenario("shadowed_closure", 0, ProgShadowedClosure),
     Scenario("caller_scope", 0, ProgCallerScope),
     Scenario("error_in_body", 0, ProgErrorInBody),
     Scenario("nested_return", 0, ProgNestedReturn),
     Scenario("return_in_call", 0, ProgReturnInCall),
     Scenario("return_in_loop", 0, ProgReturnInLoop),
     Scenario("type_error", 0, ProgTypeError),
     Scenario("top_level_return", 0, ProgTopLevelReturn),
     Scenario("error_in_block", 0, ProgErrorInBlock),
     Scenario("while", 0, ProgWhile),
     Scenario("all_exits", 0, ProgAllExits)}
    \cup {Scenario("shadow", v, ProgShadow(v)) : v \in 0..MaxVal}
    \cup {Scenario("assign_outer", v, ProgAssignOuter(v)) : v \in 0..MaxVal}
    \cup {Scenario("leak", v, ProgLeak(v)) : v \in 0..MaxVal}

\* a source text: its scenario, and whether the text has a lexical or a
\* syntactic error
Source(scenario, lexical_error, syntax_error) ==
    [name |-> scenario.name, v |-> scenario.v, stmts |-> scenario.stmts,
     lexical_error |-> lexical_error, syntax_error |-> syntax_error]

Sources ==
    {Source(sc, le, se) : sc \in Scenarios, le \in BOOLEAN, se \in BOOLEAN}

\* the lines typed at the prompt
PromptLines ==
    {Source(sc, le, se) :
        sc \in {s \in Scenarios : s.name \in {"add", "undefined", "arity"}},
        le \in BOOLEAN, se \in BOOLEAN}

NoSource == Source(Scenario("", 0, <<>>), FALSE, FALSE)

\* the scanner and the parser where the model does not follow them
NoScanner == [status |-> "none"]
NoParser == [status |-> "none"]

-----------------------------------------------------------------------------
(* The runner: main, Runner::run_file, Runner::run_prompt, Runner::run,    *)
(* Interpreter::interpret and the ErrorReporter                            *)

\* process::exit(65), process::exit(70), and the 0 of a main that returns
ExitDataErr == 65
ExitSoftware == 70
ExitOk == 0

\* a run that goes on whatever the reporter says
run_never_returns_early(has_error) == FALSE

\* the two checks of Runner::run: if self.error_reporter.has_error() { return; }
run_returns_early(has_error) == has_error

\* the end of Runner::run_file: the exit code the flags give
run_file_exit(has_error, has_runtime_error) ==
    IF has_error THEN ExitDataErr
    ELSE IF has_runtime_error THEN ExitSoftware
    ELSE ExitOk

\* a reset that leaves has_error as it is
reset_keeps(has_error) == has_error

\* ErrorReporter::reset
reset(has_error) == FALSE

\* the RuntimeError behind the end r of a top-level statement, if there is
\* one: the Err itself, or the Err a panicking unwrap was given
RaisedBy(r) ==
    CASE IsRealError(r) -> <<r>>
      [] IsPanic(r) /\ IsSome(r.err) -> <<Unwrap(r.err)>>
      [] OTHER -> <<>>

Init ==
    /\ session = <<>>
    /\ mode \in {"file", "prompt"}
    /\ pc = IF mode = "file" THEN "run_file" ELSE "run_prompt"
    /\ IF mode = "file" THEN source \in Sources ELSE source = NoSource
    /\ had_error = FALSE
    /\ had_runtime_error = FALSE
    /\ statements = <<>>
    /\ ip = 0
    /\ istate = Interpreter_new
    /\ exit_code = -1
    /\ lines = 0
    /\ stage = {}
    /\ raised = <<>>
    /\ eheap = <<>>
    /\ eop = [op |-> "none"]
    /\ scanner = NoScanner
    /\ parser = NoParser
    /\ eqop = [op |-> "none"]

\* Runner::run_file up to its call of run: the file is read and the
\* Interpreter made
RunFile ==
    /\ pc = "run_file"
    /\ pc' = "scan"
    /\ istate' = Interpreter_new
    /\ UNCHANGED <<mode, source, had_error, had_runtime_error, statements, ip,
                   exit_code, lines, stage, raised, eheap, eop,
                   scanner, parser, eqop, session>>

\* Runner::run_prompt up to its loop: the Interpreter is made once
RunPrompt ==
    /\ pc = "run_prompt"
    /\ pc' = "read"
    /\ istate' = Interpreter_new
    /\ UNCHANGED <<mode, source, had_error, had_runtime_error, statements, ip,
                   exit_code, lines, stage, raised, eheap, eop,
                   scanner, parser, eqop, session>>

\* run_prompt reads a line that is not empty and calls run with it
ReadLine ==
    /\ pc = "read"
    /\ lines < MaxLines
    /\ \E line \in PromptLines : source' = line
    /\ lines' = lines + 1
    /\ pc' = "scan"
    /\ ip' = 0
    /\ statements' = <<>>
    /\ stage' = {}
    /\ raised' = <<>>
    /\ istate' = [istate EXCEPT !.log = <<>>]
    /\ UNCHANGED <<mode, had_error, had_runtime_error, exit_code, eheap, eop,
                   scanner, parser, eqop, session>>

\* run_prompt reads the empty line: the loop breaks and main returns
ReadEmptyLine ==
    /\ pc = "read"
    /\ pc' = "exited"
    /\ exit_code' = ExitOk
    /\ UNCHANGED <<mode, source, had_error, had_runtime_error, statements, ip,
                   istate, lines, stage, raised, eheap, eop,
                   scanner, parser, eqop, session>>

\* Runner::run: scanner.scan_tokens(); a lexical error is reported
Scan ==
    /\ pc = "scan"
    /\ had_error' = (had_error \/ source.lexical_error)
    /\ stage' = stage \cup {"scan"}
    /\ pc' = "scanned"
    /\ UNCHANGED <<mode, source, had_runtime_error, statements, ip, istate,
                   exit_code, lines, raised, eheap, eop,
                   scanner, parser, eqop, session>>

\* Runner::run: no error while scanning, so parser.parse(); a syntactic
\* error is reported
Parse ==
    /\ pc = "scanned"
    /\ ~run_returns_early(had_error)
    /\ had_error' = (had_error \/ source.syntax_error)
    /\ statements' = source.stmts
    /\ stage' = stage \cup {"parse"}
    /\ pc' = "parsed"
    /\ UNCHANGED <<mode, source, had_runtime_error, ip, istate, exit_code,
                   lines, raised, eheap, eop,
                   scanner, parser, eqop, session>>

\* Runner::run: an error while scanning or while parsing, so run returns
RunReturnsEarly ==
    /\ pc \in {"scanned", "parsed"}
    /\ run_returns_early(had_error)
    /\ pc' = "ret"
    /\ UNCHANGED <<mode, source, had_error, had_runtime_error, statements, ip,
                   istate, exit_code, lines, stage, raised, eheap, eop,
                   scanner, parser, eqop, session>>

\* Runner::run: no error while parsing, so interpreter.interpret(statements)
Interpret ==
    /\ pc = "parsed"
    /\ ~run_returns_early(had_error)
    /\ stage' = stage \cup {"interpret"}
    /\ ip' = 0
    /\ pc' = "interpret"
    /\ UNCHANGED <<mode, source, had_error, had_runtime_error, statements,
                   istate, exit_code, lines, raised, eheap, eop,
                   scanner, parser, eqop, session>>

\* one turn of interpret's loop:
\*   self.execute(&stmt).inspect_err(|e| self.error(..)).unwrap()
\* an Err is reported (ErrorReporter::runtime_error sets has_runtime_error)
\* and then unwrapped, which panics; a panic inside execute unwinds through
InterpretStmt ==
    /\ pc = "interpret"
    /\ ip < Len(statements)
    /\ LET S == execute(statements[ip + 1], istate) IN
       /\ istate' = S.st
       /\ ip' = ip + 1
       /\ had_runtime_error' = (had_runtime_error \/ IsErr(S.r))
       /\ pc' = IF IsOk(S.r) THEN "interpret" ELSE "panicked"
       /\ raised' = raised \o RaisedBy(S.r)
    /\ UNCHANGED <<mode, source, had_error, statements, exit_code, lines,
                   stage, eheap, eop,
                   scanner, parser, eqop, session>>

\* interpret's loop ends and run returns
InterpretDone ==
    /\ pc = "interpret"
    /\ ip = Len(statements)
    /\ pc' = "ret"
    /\ UNCHANGED <<mode, source, had_error, had_runtime_error, statements, ip,
                   istate, exit_code, lines, stage, raised, eheap, eop,
                   scanner, parser, eqop, session>>

\* Runner::run_file after run: the exit code
RunFileExit ==
    /\ pc = "ret"
    /\ mode = "file"
    /\ exit_code' = run_file_exit(had_error, had_runtime_error)
    /\ pc' = "exited"
    /\ UNCHANGED <<mode, source, had_error, had_runtime_error, statements, ip,
                   istate, lines, stage, raised, eheap, eop,
                   scanner, parser, eqop, session>>

\* Runner::run_prompt after run: self.error_reporter.reset()
PromptReset ==
    /\ pc = "ret"
    /\ mode = "prompt"
    /\ had_error' = reset(had_error)
    /\ pc' = "read"
    /\ UNCHANGED <<mode, source, had_runtime_error, statements, ip, istate,
                   exit_code, lines, stage, raised, eheap, eop,
                   scanner, parser, eqop, session>>

Next ==
    \/ RunFile
    \/ RunPrompt
    \/ ReadLine
    \/ ReadEmptyLine
    \/ Scan
    \/ Parse
    \/ RunReturnsEarly
    \/ Interpret
    \/ InterpretStmt
    \/ InterpretDone
    \/ RunFileExit
    \/ PromptReset

Spec == Init /\ [][Next]_vars

-----------------------------------------------------------------------------
(* The Environment alone: scopes are made, and define, assign and get are  *)
(* called on them with every name and value of a small set                 *)

EnvNames == {"a", "b"}
EnvValues == {Number(1), Number(2)}

InitEnv ==
    /\ session = <<>>
    /\ mode = "env"
    /\ pc = "env"
    /\ source = NoSource
    /\ had_error = FALSE
    /\ had_runtime_error = FALSE
    /\ statements = <<>>
    /\ ip = 0
    /\ istate = Interpreter_new
    /\ exit_code = -1
    /\ lines = 0
    /\ stage = {}
    /\ raised = <<>>
    /\ eheap = <<Environment_new(0)>>
    /\ eop = [op |-> "new", enclosing |-> 0]
    /\ scanner = NoScanner
    /\ parser = NoParser
    /\ eqop = [op |-> "none"]

\* Environment::new(enclosing), enclosing None or a scope of the arena
EnvNew ==
    /\ Len(eheap) < MaxScopes
    /\ \E enclosing \in 0..Len(eheap) :
          /\ eheap' = Append(eheap, Environment_new(enclosing))
          /\ eop' = [op |-> "new", enclosing |-> enclosing]
    /\ UNCHANGED <<mode, pc, source, had_error, had_runtime_error, statements,
                   ip, istate, exit_code, lines, stage, raised,
                   scanner, parser, eqop, session>>

\* scope.define(identifier, value), value None or Some
EnvDefine ==
    /\ \E s \in DOMAIN eheap, name \in EnvNames,
          value \in {None} \cup {Some(v) : v \in EnvValues} :
          /\ eheap' = define(eheap, s, Ident(name), value)
          /\ eop' = [op |-> "define", s |-> s, name |-> name, value |-> value]
    /\ UNCHANGED <<mode, pc, source, had_error, had_runtime_error, statements,
                   ip, istate, exit_code, lines, stage, raised,
                   scanner, parser, eqop, session>>

\* scope.assign(identifier, Some(v))
EnvAssign ==
    /\ \E s \in DOMAIN eheap, name \in EnvNames, v \in EnvValues :
          LET A == assign(eheap, s, Ident(name), Some(v)) IN
          /\ eheap' = A.heap
          /\ eop' = [op |-> "assign", s |-> s, name |-> name, value |-> v,
                     before |-> eheap, r |-> A.r]
    /\ UNCHANGED <<mode, pc, source, had_error, had_runtime_error, statements,
                   ip, istate, exit_code, lines, stage, raised,
                   scanner, parser, eqop, session>>

\* scope.get(identifier)
EnvGet ==
    /\ \E s \in DOMAIN eheap, name \in EnvNames :
          eop' = [op |-> "get", s |-> s, name |-> name,
                  r |-> get(eheap, s, Ident(name))]
    /\ UNCHANGED <<mode, pc, source, had_error, had_runtime_error, statements,
                   ip, istate, exit_code, lines, stage, raised, eheap,
                   scanner, parser, eqop, session>>

NextEnv ==
    \/ EnvNew
    \/ EnvDefine
    \/ EnvAssign
    \/ EnvGet

SpecEnv == InitEnv /\ [][NextEnv]_vars

-----------------------------------------------------------------------------
(* The scanner: struct Scanner.  The source is a sequence of chars         *)
(* (_source, a Vec<char>); a char is a string of one character.  The       *)
(* scanner counts chars in start and current, but takes the length of the  *)
(* source and its slices in bytes of the UTF-8 text (source, a &str).      *)

\* the chars the scanner is given: two letters, a digit, the dot, the double
\* quote, the newline, '=', a char no token starts with, a letter of two
\* bytes and a numeric char of two bytes that is not a digit
ScanAlphabet == {"o", "r", "1", ".", "\"", "\n", "=", "@", "é", "²"}

AsciiDigits == {"0", "1", "2", "3", "4", "5", "6", "7", "8", "9"}
AsciiLetters ==
    {"a", "b", "c", "d", "e", "f", "g", "h", "i", "j", "k", "l", "m", "n",
     "o", "p", "q", "r", "s", "t", "u", "v", "w", "x", "y", "z"}

\* char::len_utf8
len_utf8(c) == IF c \in {"é", "²"} THEN 2 ELSE 1
\* char::is_numeric, char::is_alphabetic, char::is_alphanumeric
is_numeric(c) == c \in AsciiDigits \cup {"²"}
is_alphabetic(c) == c \in AsciiLetters \cup {"é"}
is_alphanumeric(c) == is_alphabetic(c) \/ is_numeric(c)

\* the '\0' that peek and peek_next return at the end, and what an index
\* past the end of _source gives: a panic
NUL == "NUL"
OutOfBounds == "index out of bounds"

\* the byte offset of the char at index k (from 0) of the text
RECURSIVE ByteOffset(_, _)
ByteOffset(chars, k) ==
    IF k = 0 THEN 0 ELSE ByteOffset(chars, k - 1) + len_utf8(chars[k])

\* str::len: the length in bytes
str_len(chars) == ByteOffset(chars, Len(chars))

\* &source[a..b]: the chars between the byte offsets a and b; None is the
\* panic of a slice that is out of range or not on char boundaries
slice(chars, a, b) ==
    LET boundaries == {ByteOffset(chars, k) : k \in 0..Len(chars)} IN
    IF a <= b /\ a \in boundaries /\ b \in boundaries
    THEN LET ka == CHOOSE k \in 0..Len(chars) : ByteOffset(chars, k) = a
             kb == CHOOSE k \in 0..Len(chars) : ByteOffset(chars, k) = b
         IN  Some(SubSeq(chars, ka + 1, kb))
    ELSE None

\* the String of a sequence of chars
RECURSIVE Concat(_)
Concat(chars) ==
    IF chars = <<>> THEN "" ELSE Head(chars) \o Concat(Tail(chars))

DigitValue(c) ==
    CASE c = "0" -> 0 [] c = "1" -> 1 [] c = "2" -> 2 [] c = "3" -> 3
      [] c = "4" -> 4 [] c = "5" -> 5 [] c = "6" -> 6 [] c = "7" -> 7
      [] c = "8" -> 8 [] c = "9" -> 9

RECURSIVE NatOfDigits(_)
NatOfDigits(chars) ==
    IF chars = <<>> THEN 0
    ELSE 10 * NatOfDigits(SubSeq(chars, 1, Len(chars) - 1))
         + DigitValue(chars[Len(chars)])

\* str::parse::<f64> of a text over the chars of the model: digits with at
\* most one dot and at least one digit; None is the Err that unwrap panics on
parse_f64(chars) ==
    LET dots == {i \in DOMAIN chars : chars[i] = "."} IN
    IF /\ \A i \in DOMAIN chars : chars[i] \in AsciiDigits \cup {"."}
       /\ Cardinality(dots) <= 1
       /\ Cardinality(dots) < Len(chars)
    THEN IF dots = {} THEN Some(Number(NatOfDigits(chars)))
         ELSE LET d == CHOOSE i \in dots : TRUE IN
              IF \A i \in (d + 1)..Len(chars) : chars[i] = "0"
              THEN Some(Number(NatOfDigits(SubSeq(chars, 1, d - 1))))
              ELSE Some(NumberOther)
    ELSE None

\* get_keyword_token_type: the keyword table
get_keyword_token_type(text) ==
    CASE text = "and" -> Some("And") [] text = "class" -> Some("Class")
      [] text = "else" -> Some("Else") [] text = "false" -> Some("False")
      [] text = "fun" -> Some("Fun") [] text = "for" -> Some("For")
      [] text = "if" -> Some("If") [] text = "nil" -> Some("Nil")
      [] text = "or" -> Some("Or") [] text = "print" -> Some("Print")
      [] text = "return" -> Some("Return") [] text = "super" -> Some("Super")
      [] text = "this" -> Some("This") [] text = "true" -> Some("True")
      [] text = "var" -> Some("Var") [] text = "while" -> Some("While")
      [] OTHER -> None

\* Token::new
Token_new(token_type, lexeme, literal, line) ==
    [token_type |-> token_type, lexeme |-> lexeme, literal |-> literal,
     line |-> line]

\* Scanner::new.  reports is what the scanner gave to ErrorReporter::report;
\* spans is a ghost: the start and current each token was added at
Scanner_new(text) ==
    [source |-> text, tokens |-> <<>>, start |-> 0, current |-> 0,
     line |-> 1, reports |-> <<>>, spans |-> <<>>, status |-> "scanning",
     why |-> ""]

\* a panic unwinds scan_tokens
ScannerPanic(sc, why) == [sc EXCEPT !.status = "panicked", !.why = why]

\* Scanner::is_at_end: current against the length in bytes
is_at_end(sc) == sc.current >= str_len(sc.source)

\* Scanner::peek
peek(sc) ==
    IF is_at_end(sc) THEN NUL
    ELSE IF sc.current < Len(sc.source) THEN sc.source[sc.current + 1]
         ELSE OutOfBounds

\* Scanner::peek_next
peek_next(sc) ==
    IF sc.current + 1 >= str_len(sc.source) THEN NUL
    ELSE IF sc.current + 1 < Len(sc.source) THEN sc.source[sc.current + 2]
         ELSE OutOfBounds

\* Scanner::advance: [sc, c], c the Option<&char> it returns
advance(sc) ==
    [sc |-> [sc EXCEPT !.current = @ + 1],
     c |-> IF sc.current < Len(sc.source)
           THEN Some(sc.source[sc.current + 1]) ELSE None]

\* Scanner::match_char: [sc, matched]
match_char(sc, expected) ==
    IF is_at_end(sc) THEN [sc |-> sc, matched |-> FALSE]
    ELSE IF sc.current < Len(sc.source) /\ sc.source[sc.current + 1] = expected
         THEN [sc |-> [sc EXCEPT !.current = @ + 1], matched |-> TRUE]
         ELSE [sc |-> sc, matched |-> FALSE]

\* Scanner::report
scanner_report(sc, line, message) ==
    [sc EXCEPT !.reports = Append(@, [line |-> line, message |-> message])]

\* Scanner::add_token: the lexeme is ""
add_token(sc, token) ==
    [sc EXCEPT !.tokens = Append(@, Token_new(token, "", None, sc.line)),
               !.spans = Append(@, [start |-> sc.start, current |-> sc.current])]

\* Scanner::add_token_literal: the lexeme is &source[start..current]
add_token_literal(sc, token, literal) ==
    LET lexeme == slice(sc.source, sc.start, sc.current) IN
    IF lexeme = None THEN ScannerPanic(sc, "byte index is not a char boundary")
    ELSE [sc EXCEPT
            !.tokens = Append(@, Token_new(token, Concat(Unwrap(lexeme)),
                                           literal, sc.line)),
            !.spans = Append(@, [start |-> sc.start, current |-> sc.current])]

\* the loop of scan_string
RECURSIVE scan_string_loop(_, _)
scan_string_loop(sc, delimmeter) ==
    IF peek(sc) = OutOfBounds THEN ScannerPanic(sc, OutOfBounds)
    ELSE IF peek(sc) # delimmeter /\ ~is_at_end(sc)
         THEN scan_string_loop(
                 advance(IF peek(sc) = "\n"
                         THEN [sc EXCEPT !.line = @ + 1] ELSE sc).sc,
                 delimmeter)
         ELSE sc

\* Scanner::scan_string
scan_string(sc0, delimmeter) ==
    LET sc == scan_string_loop(sc0, delimmeter) IN
    IF sc.status = "panicked" THEN sc
    ELSE IF is_at_end(sc) THEN scanner_report(sc, sc.line, "Unterminated string.")
    ELSE LET closed == advance(sc).sc
             value == slice(closed.source, closed.start + 1, closed.current - 1)
         IN  IF value = None
             THEN ScannerPanic(closed, "byte index is not a char boundary")
             ELSE add_token_literal(closed, "String",
                                    Some(String(Concat(Unwrap(value)))))

\* while self.peek().is_numeric() { self.advance(); }
RECURSIVE scan_digits(_)
scan_digits(sc) ==
    IF peek(sc) = OutOfBounds THEN ScannerPanic(sc, OutOfBounds)
    ELSE IF is_numeric(peek(sc)) THEN scan_digits(advance(sc).sc)
         ELSE sc

\* Scanner::scan_number
scan_number(sc0) ==
    LET sc1 == scan_digits(sc0) IN
    IF sc1.status = "panicked" THEN sc1
    ELSE IF peek(sc1) = "." /\ peek_next(sc1) = OutOfBounds
    THEN ScannerPanic(sc1, OutOfBounds)
    ELSE LET sc2 == IF peek(sc1) = "." /\ is_numeric(peek_next(sc1))
                    THEN scan_digits(advance(sc1).sc) ELSE sc1
         IN  IF sc2.status = "panicked" THEN sc2
             ELSE LET text == slice(sc2.source, sc2.start, sc2.current) IN
                  IF text = None
                  THEN ScannerPanic(sc2, "byte index is not a char boundary")
                  ELSE IF parse_f64(Unwrap(text)) = None
                  THEN ScannerPanic(sc2, "unwrap on ParseFloatError")
                  ELSE add_token_literal(sc2, "Number", parse_f64(Unwrap(text)))

\* the loop of scan_identifier
RECURSIVE scan_identifier_loop(_)
scan_identifier_loop(sc) ==
    IF peek(sc) = OutOfBounds THEN ScannerPanic(sc, OutOfBounds)
    ELSE IF is_alphanumeric(peek(sc)) \/ peek(sc) = "_"
         THEN scan_identifier_loop(advance(sc).sc)
         ELSE sc

\* Scanner::scan_identifier: the text chooses the token type, and add_token
\* makes the token
scan_identifier(sc0) ==
    LET sc == scan_identifier_loop(sc0) IN
    IF sc.status = "panicked" THEN sc
    ELSE LET text == slice(sc.source, sc.start, sc.current) IN
         IF text = None
         THEN ScannerPanic(sc, "byte index is not a char boundary")
         ELSE LET token_type == get_keyword_token_type(Concat(Unwrap(text))) IN
              add_token(sc, IF IsSome(token_type) THEN Unwrap(token_type)
                            ELSE "Identifier")

\* Scanner::ignore_until_newline
RECURSIVE ignore_until_newline(_)
ignore_until_newline(sc) ==
    IF peek(sc) = OutOfBounds THEN ScannerPanic(sc, OutOfBounds)
    ELSE IF peek(sc) # "\n" /\ ~is_at_end(sc)
         THEN ignore_until_newline(advance(sc).sc)
         ELSE sc

\* a token of one char, or of two when '=' follows
one_or_two(sc, single, double) ==
    LET m == match_char(sc, "=") IN
    add_token(m.sc, IF m.matched THEN double ELSE single)

\* Scanner::scan_token
scan_token(sc0) ==
    LET a == advance(sc0)
        sc == a.sc
        char == IF IsSome(a.c) THEN Unwrap(a.c) ELSE NUL
    IN  CASE a.c = None -> sc
          [] char = "(" -> add_token(sc, "LeftParen")
          [] char = ")" -> add_token(sc, "RightParen")
          [] char = "{" -> add_token(sc, "LeftBrace")
          [] char = "}" -> add_token(sc, "RightBrace")
          [] char = "," -> add_token(sc, "Comma")
          [] char = "." -> add_token(sc, "Dot")
          [] char = "-" -> add_token(sc, "Minus")
          [] char = "+" -> add_token(sc, "Plus")
          [] char = ";" -> add_token(sc, "Semicolon")
          [] char = "*" -> add_token(sc, "Star")
          [] char = "!" -> one_or_two(sc, "Bang", "BangEqual")
          [] char = "=" -> one_or_two(sc, "Equal", "EqualEqual")
          [] char = "<" -> one_or_two(sc, "Less", "LessEqual")
          [] char = ">" -> one_or_two(sc, "Greater", "GreaterEqual")
          [] char \in {" ", "\r", "\t"} -> sc
          [] char = "\n" -> [sc EXCEPT !.line = @ + 1]
          [] char = "/" ->
                IF match_char(sc, "/").matched
                THEN ignore_until_newline(match_char(sc, "/").sc)
                ELSE add_token(sc, "Slash")
          [] char = "\"" -> scan_string(sc, "\"")
          [] char = "'" -> scan_string(sc, "'")
          [] OTHER ->
                IF is_numeric(char) THEN scan_number(sc)
                ELSE IF is_alphabetic(char) \/ char = "_"
                     THEN scan_identifier(sc)
                     ELSE scanner_report(sc, sc.line,
                              "Unexpected character: '" \o char \o "'")

\* the sources given to the scanner: every text of at most MaxSrc chars
ScanSources == UNION {[1..n -> ScanAlphabet] : n \in 0..MaxSrc}

InitScan ==
    /\ session = <<>>
    /\ mode = "scan"
    /\ pc = "scan"
    /\ source = NoSource
    /\ had_error = FALSE
    /\ had_runtime_error = FALSE
    /\ statements = <<>>
    /\ ip = 0
    /\ istate = Interpreter_new
    /\ exit_code = -1
    /\ lines = 0
    /\ stage = {}
    /\ raised = <<>>
    /\ eheap = <<>>
    /\ eop = [op |-> "none"]
    /\ \E text \in ScanSources : scanner = Scanner_new(text)
    /\ parser = NoParser
    /\ eqop = [op |-> "none"]

\* one turn of the loop of scan_tokens: start = current; scan_token()
ScanToken ==
    /\ scanner.status = "scanning"
    /\ ~is_at_end(scanner)
    /\ scanner' = scan_token([scanner EXCEPT !.start = scanner.current])
    /\ had_error' = (had_error \/ Len(scanner'.reports) > Len(scanner.reports))
    /\ UNCHANGED <<mode, pc, source, had_runtime_error, statements, ip, istate,
                   exit_code, lines, stage, raised, eheap, eop, parser, eqop, session>>

\* the end of scan_tokens: the Eof token is pushed and the tokens returned
ScanEof ==
    /\ scanner.status = "scanning"
    /\ is_at_end(scanner)
    /\ scanner' = [scanner EXCEPT
                      !.tokens = Append(@, Token_new("Eof", "", None, 0)),
                      !.spans = Append(@, [start |-> scanner.start,
                                           current |-> scanner.current]),
                      !.status = "done"]
    /\ UNCHANGED <<mode, pc, source, had_error, had_runtime_error, statements,
                   ip, istate, exit_code, lines, stage, raised, eheap, eop,
                   parser, eqop, session>>

NextScan ==
    \/ ScanToken
    \/ ScanEof

SpecScan == InitScan /\ [][NextScan]_vars

-----------------------------------------------------------------------------
(* Equality alone: visit_binary_expr's == and != on every pair of values of *)
(* a small set, both operands already evaluated                            *)

EqValues ==
    {Number(0), Number(1), String("a"), String("1"), String(""),
     Boolean(TRUE), Boolean(FALSE), Nil,
     Callable(Native("clock", 0)),
     Callable(User(Ident("f"), <<>>, BlockStmt(<<>>), Globals)),
     Callable(User(Ident("g"), <<Ident("a")>>, BlockStmt(<<>>), Globals))}

InitEq ==
    /\ session = <<>>
    /\ mode = "eq"
    /\ pc = "eq"
    /\ source = NoSource
    /\ had_error = FALSE
    /\ had_runtime_error = FALSE
    /\ statements = <<>>
    /\ ip = 0
    /\ istate = Interpreter_new
    /\ exit_code = -1
    /\ lines = 0
    /\ stage = {}
    /\ raised = <<>>
    /\ eheap = <<>>
    /\ eop = [op |-> "none"]
    /\ scanner = NoScanner
    /\ parser = NoParser
    /\ \E l \in EqValues, r \in EqValues :
          eqop = [op |-> "none", left |-> l, right |-> r, eq |-> None, ne |-> None]

\* left == right
EvalEqualEqual ==
    /\ pc = "eq"
    /\ eqop' = [eqop EXCEPT !.op = "EqualEqual",
                            !.eq = Some(binary_op(eqop.left, Tok("EqualEqual"),
                                                  eqop.right))]
    /\ UNCHANGED <<mode, pc, source, had_error, had_runtime_error, statements,
                   ip, istate, exit_code, lines, stage, raised, eheap, eop,
                   scanner, parser, session>>

\* left != right
EvalBangEqual ==
    /\ pc = "eq"
    /\ eqop' = [eqop EXCEPT !.op = "BangEqual",
                            !.ne = Some(binary_op(eqop.left, Tok("BangEqual"),
                                                  eqop.right))]
    /\ UNCHANGED <<mode, pc, source, had_error, had_runtime_error, statements,
                   ip, istate, exit_code, lines, stage, raised, eheap, eop,
                   scanner, parser, session>>

NextEq ==
    \/ EvalEqualEqual
    \/ EvalBangEqual

SpecEq == InitEq /\ [][NextEq]_vars

-----------------------------------------------------------------------------
(* The parser: struct Parser.  A parser state ps is [tokens, current,      *)
(* reported]: the token list (ending in Eof), the cursor _current (from 0) *)
(* and what the parser gave to ErrorReporter::error.  Each method of the   *)
(* grammar is an operator of the same name that takes ps and returns       *)
(* [ps, r], r being Ok(node), a ParseError or a Panic.                     *)

\* a token as the parser reads it: Token { token_type, lexeme, literal }
Token(token_type, lexeme, literal) ==
    [token_type |-> token_type, lexeme |-> lexeme, literal |-> literal]

\* struct ParseError { token, message }
ParseError(token, message) == [k |-> "Err", token |-> token, message |-> message]

\* args.len() > 255 in finish_call, parameters.len() > 255 in fun_decl_stmt
MaxArguments == 255
MaxParameters == 255

\* Parser::peek, Parser::previous, Parser::is_at_end, Parser::check
parser_peek(ps) == ps.tokens[ps.current + 1]
parser_previous(ps) == ps.tokens[ps.current]
parser_is_at_end(ps) == parser_peek(ps).token_type = "Eof"
check(ps, token_type) ==
    ~parser_is_at_end(ps) /\ parser_peek(ps).token_type = token_type

\* Parser::advance: the cursor moves unless it is at Eof, and previous() is
\* called for the token to return; previous_at_zero records a call of it
\* with the cursor at 0, where current - 1 is no index of the list
parser_advance(ps) ==
    IF ~parser_is_at_end(ps) THEN [ps EXCEPT !.current = @ + 1]
    ELSE [ps EXCEPT !.previous_at_zero = @ \/ ps.current = 0]

\* Parser::match_token: [ps, matched]
match_token(ps, types) ==
    IF \E token_type \in types : check(ps, token_type)
    THEN [ps |-> parser_advance(ps), matched |-> TRUE]
    ELSE [ps |-> ps, matched |-> FALSE]

\* Parser::consume
consume(ps, token_type, error) ==
    IF check(ps, token_type)
    THEN [ps |-> parser_advance(ps), r |-> Ok(parser_previous(parser_advance(ps)))]
    ELSE [ps |-> ps, r |-> ParseError(parser_peek(ps), error)]

\* Parser::error: the reporter is given the token and the message
parser_error(ps, token, message) ==
    [ps EXCEPT !.reported = Append(@, [token |-> token, message |-> message])]

\* the loop of Parser::synchronize
RECURSIVE synchronize_loop(_)
synchronize_loop(ps) ==
    IF parser_is_at_end(ps) THEN ps
    ELSE IF parser_previous(ps).token_type = "Semicolon" THEN ps
    ELSE IF parser_peek(ps).token_type \in
                {"Class", "Fun", "Var", "For", "If", "While", "Print", "Return"}
         THEN ps
         ELSE synchronize_loop(parser_advance(ps))

\* a synchronize that leaves the cursor where the error was found
synchronize_stays(ps) == ps

\* Parser::synchronize
synchronize(ps) == synchronize_loop(parser_advance(ps))

RECURSIVE expression(_)
RECURSIVE assignment(_)
RECURSIVE unary(_)
RECURSIVE finish_call_turns(_, _)
RECURSIVE call_loop(_, _)
RECURSIVE factor_loop(_, _)
RECURSIVE term_loop(_, _)
RECURSIVE comparison_loop(_, _)
RECURSIVE equality_loop(_, _)
RECURSIVE and_loop(_, _)
RECURSIVE or_loop(_, _)

\* the end of a grouping in Parser::primary, E being what expression()
\* returned:
\*   let expr = self.expression()?;
\*   self.consume(TokenType::RightParen, "...").unwrap(); Ok(gexpr(expr))
grouping_close(E) ==
    LET C == consume(E.ps, "RightParen", "Expect ')' after expression.")
    IN  CASE E.r.k # "Ok" -> E
          [] C.r.k # "Ok" -> [ps |-> C.ps, r |-> Panic("unwrap on Err", Some(C.r))]
          [] OTHER -> [ps |-> C.ps, r |-> Ok(GroupingExpr(E.r.v))]

\* Parser::primary
primary(ps) ==
    LET m == match_token(ps, {"True", "False", "Nil", "Number", "String",
                              "LeftParen", "Identifier"})
        previous == parser_previous(m.ps)
    IN  CASE ~m.matched ->
                [ps |-> ps, r |-> ParseError(parser_peek(ps), "Expected expression.")]
          [] previous.token_type = "True" ->
                [ps |-> m.ps, r |-> Ok(LiteralExpr(Boolean(TRUE)))]
          [] previous.token_type = "False" ->
                [ps |-> m.ps, r |-> Ok(LiteralExpr(Boolean(FALSE)))]
          [] previous.token_type = "Nil" ->
                [ps |-> m.ps, r |-> Ok(LiteralExpr(Nil))]
          [] previous.token_type \in {"String", "Number"} ->
                IF IsSome(previous.literal)
                THEN [ps |-> m.ps, r |-> Ok(LiteralExpr(Unwrap(previous.literal)))]
                ELSE [ps |-> m.ps, r |-> Panic("unwrap on None", None)]
          [] previous.token_type = "Identifier" ->
                [ps |-> m.ps, r |-> Ok(VariableExpr(previous))]
          [] OTHER -> grouping_close(expression(m.ps))

\* the check of finish_call before each argument: args.len() > 255
too_many_arguments(args) == Len(args) > MaxArguments

\* the rest of a turn of the loop of Parser::finish_call, E being what
\* expression() returned for the argument: the push, then a comma or the break
finish_call_argument(L, E) ==
    LET m == match_token(E.ps, {"Comma"})
        args == Append(L.args, E.r.v)
    IN  CASE E.r.k # "Ok" -> [L EXCEPT !.ps = E.ps, !.r = E.r, !.done = TRUE]
          [] m.matched -> [L EXCEPT !.ps = m.ps, !.args = args]
          [] OTHER -> [L EXCEPT !.ps = m.ps, !.args = args, !.r = Ok(args),
                                !.done = TRUE]

\* one turn of the loop of Parser::finish_call on L = [ps, args, r, done]:
\* the check of the count, then the argument
finish_call_turn(L) ==
    CASE L.done -> L
      [] too_many_arguments(L.args) ->
            [L EXCEPT !.done = TRUE,
                      !.r = ParseError(parser_peek(L.ps),
                                       "Can't have more than 255 arguments.")]
      [] OTHER -> finish_call_argument(L, expression(L.ps))

\* k turns of that loop, or fewer when it ends before: the first half of
\* the turns, then the rest
finish_call_turns(L, k) ==
    LET h == k \div 2
        first == finish_call_turns(L, h)
    IN  CASE k = 0 -> L
          [] k = 1 -> finish_call_turn(L)
          [] first.done -> first
          [] OTHER -> finish_call_turns(first, k - h)

\* what the loop of Parser::finish_call leaves: the cursor and Ok(args) or
\* the error
finish_call_left(L) == [ps |-> L.ps, r |-> L.r]

\* the arguments of Parser::finish_call: r is Ok of them.  Each turn reads
\* a token, so the loop ends within as many turns as tokens are left
finish_call_args(ps) ==
    finish_call_left(finish_call_turns([ps |-> ps, args |-> <<>>,
                                        r |-> Ok(<<>>), done |-> FALSE],
                                       Len(ps.tokens) - ps.current))

\* the end of Parser::finish_call, A being the arguments read:
\*   let paren = self.consume(TokenType::RightParen, "...")?;
\*   Ok(cexpr(callee, paren, args))
finish_call_paren(A, callee) ==
    LET P == consume(A.ps, "RightParen", "Expect ')' after arguments.")
    IN  CASE A.r.k # "Ok" -> A
          [] P.r.k # "Ok" -> P
          [] OTHER -> [ps |-> P.ps, r |-> Ok(CallExpr(callee, P.r.v, A.r.v))]

\* Parser::finish_call
finish_call(ps, callee) ==
    finish_call_paren(IF ~check(ps, "RightParen") THEN finish_call_args(ps)
                      ELSE [ps |-> ps, r |-> Ok(<<>>)],
                      callee)

\* Parser::call from an expression on, E being what primary() or
\* finish_call() returned: the ? and then the loop
call_from(E) ==
    CASE E.r.k # "Ok" -> E
      [] OTHER -> call_loop(E.ps, E.r.v)

\* the loop of Parser::call
call_loop(ps, expr) ==
    LET m == match_token(ps, {"LeftParen"})
    IN  CASE ~m.matched -> [ps |-> ps, r |-> Ok(expr)]
          [] OTHER -> call_from(finish_call(m.ps, expr))

\* Parser::call
call(ps) == call_from(primary(ps))

\* the end of the first arm of Parser::unary, R being what unary() returned
\* for the operand
unary_operand(operator, R) ==
    CASE R.r.k # "Ok" -> R
      [] OTHER -> [ps |-> R.ps, r |-> Ok(UnaryExpr(operator, R.r.v))]

\* Parser::unary
unary(ps) ==
    LET m == match_token(ps, {"Bang", "Minus"})
    IN  CASE ~m.matched -> call(ps)
          [] OTHER -> unary_operand(parser_previous(m.ps), unary(m.ps))

\* The six productions with binary operators have one shape,
\*   let mut expr = self.next()?;
\*   while self.match_token(ops) { let operator = self.previous();
\*       let right = self.next()?; expr = node(expr, operator, right); }
\* X_loop(ps, pending) is that code from an operand on and X_operand(R,
\* pending) is it from what next() returned for the operand: pending is
\* None before the first operand, and afterwards the expression so far with
\* the operator that was read.
Pending(expr, operator) == Some([expr |-> expr, operator |-> operator])

\* the expression that an operand completes
bexpr_so_far(pending, right) ==
    IF pending = None THEN right
    ELSE BinaryExpr(Unwrap(pending).expr, Unwrap(pending).operator, right)

lexpr_so_far(pending, right) ==
    IF pending = None THEN right
    ELSE LogicalExpr(Unwrap(pending).expr, Unwrap(pending).operator, right)

\* Parser::factor
factor_operand(R, pending) ==
    LET expr == bexpr_so_far(pending, R.r.v)
        m == match_token(R.ps, {"Slash", "Star"})
    IN  CASE R.r.k # "Ok" -> R
          [] m.matched -> factor_loop(m.ps, Pending(expr, parser_previous(m.ps)))
          [] OTHER -> [ps |-> R.ps, r |-> Ok(expr)]

factor_loop(ps, pending) == factor_operand(unary(ps), pending)

factor(ps) == factor_loop(ps, None)

\* Parser::term
term_operand(R, pending) ==
    LET expr == bexpr_so_far(pending, R.r.v)
        m == match_token(R.ps, {"Minus", "Plus"})
    IN  CASE R.r.k # "Ok" -> R
          [] m.matched -> term_loop(m.ps, Pending(expr, parser_previous(m.ps)))
          [] OTHER -> [ps |-> R.ps, r |-> Ok(expr)]

term_loop(ps, pending) == term_operand(factor(ps), pending)

term(ps) == term_loop(ps, None)

\* Parser::comparison
comparison_operand(R, pending) ==
    LET expr == bexpr_so_far(pending, R.r.v)
        m == match_token(R.ps, {"Greater", "GreaterEqual", "Less", "LessEqual"})
    IN  CASE R.r.k # "Ok" -> R
          [] m.matched -> comparison_loop(m.ps, Pending(expr, parser_previous(m.ps)))
          [] OTHER -> [ps |-> R.ps, r |-> Ok(expr)]

comparison_loop(ps, pending) == comparison_operand(term(ps), pending)

comparison(ps) == comparison_loop(ps, None)

\* Parser::equality
equality_operand(R, pending) ==
    LET expr == bexpr_so_far(pending, R.r.v)
        m == match_token(R.ps, {"BangEqual", "EqualEqual"})
    IN  CASE R.r.k # "Ok" -> R
          [] m.matched -> equality_loop(m.ps, Pending(expr, parser_previous(m.ps)))
          [] OTHER -> [ps |-> R.ps, r |-> Ok(expr)]

equality_loop(ps, pending) == equality_operand(comparison(ps), pending)

equality(ps) == equality_loop(ps, None)

\* Parser::and
and_operand(R, pending) ==
    LET expr == lexpr_so_far(pending, R.r.v)
        m == match_token(R.ps, {"And"})
    IN  CASE R.r.k # "Ok" -> R
          [] m.matched -> and_loop(m.ps, Pending(expr, parser_previous(m.ps)))
          [] OTHER -> [ps |-> R.ps, r |-> Ok(expr)]

and_loop(ps, pending) == and_operand(equality(ps), pending)

and(ps) == and_loop(ps, None)

\* Parser::or
or_operand(R, pending) ==
    LET expr == lexpr_so_far(pending, R.r.v)
        m == match_token(R.ps, {"Or"})
    IN  CASE R.r.k # "Ok" -> R
          [] m.matched -> or_loop(m.ps, Pending(expr, parser_previous(m.ps)))
          [] OTHER -> [ps |-> R.ps, r |-> Ok(expr)]

or_loop(ps, pending) == or_operand(and(ps), pending)

or(ps) == or_loop(ps, None)

\* what Parser::assignment makes of a left-hand side that is not a
\* VariableExpr: Err(ParseError { token: equals, "Invalid assignment target." })
invalid_target(ps, equals, expr) ==
    [ps |-> ps, r |-> ParseError(equals, "Invalid assignment target.")]

\* the end of Parser::assignment, value being what assignment() returned
\* for the right-hand side
assignment_value(expr, equals, value) ==
    CASE value.r.k # "Ok" -> value
      [] expr.e = "Variable" ->
            [ps |-> value.ps, r |-> Ok(AssignExpr(expr.token, value.r.v))]
      [] OTHER -> invalid_target(value.ps, equals, expr)

\* Parser::assignment from the left-hand side on, E being what or() returned
assignment_target(E) ==
    LET m == match_token(E.ps, {"Equal"})
    IN  CASE E.r.k # "Ok" -> E
          [] ~m.matched -> E
          [] OTHER -> assignment_value(E.r.v, parser_previous(m.ps),
                                       assignment(m.ps))

\* Parser::assignment
assignment(ps) == assignment_target(or(ps))

\* Parser::expression
expression(ps) == assignment(ps)

RECURSIVE declaration(_)
RECURSIVE statement(_)
RECURSIVE block_loop(_, _)
RECURSIVE parameters_loop(_, _)

\* the end of Parser::expression_stmt, E being what expression() returned
expression_stmt_end(E) ==
    LET C == consume(E.ps, "Semicolon", "Expect ';' after value.")
    IN  CASE E.r.k # "Ok" -> E
          [] C.r.k # "Ok" -> C
          [] OTHER -> [ps |-> C.ps, r |-> Ok(ExpressionStmt(E.r.v))]

\* Parser::expression_stmt
expression_stmt(ps) == expression_stmt_end(expression(ps))

\* the end of Parser::print_stmt, E being what expression() returned
print_stmt_end(E) ==
    LET C == consume(E.ps, "Semicolon", "Expect ';' after value.")
    IN  CASE E.r.k # "Ok" -> E
          [] C.r.k # "Ok" -> C
          [] OTHER -> [ps |-> C.ps, r |-> Ok(PrintStmt(E.r.v))]

\* Parser::print_stmt
print_stmt(ps) == print_stmt_end(expression(ps))

\* the end of Parser::var_decl_stmt, E being what expression() returned for
\* the initializer when there is one
var_decl_stmt_end(token, has_initializer, E) ==
    LET expr == IF has_initializer THEN Some(E.r.v) ELSE None
        C == consume(E.ps, "Semicolon", "Expect ';' after variable declaration.")
    IN  CASE E.r.k # "Ok" -> E
          [] C.r.k # "Ok" -> C
          [] OTHER -> [ps |-> C.ps, r |-> Ok(VarDeclaration(token, expr))]

\* Parser::var_decl_stmt
var_decl_stmt(ps) ==
    LET T == consume(ps, "Identifier", "Expect variable name.")
        m == match_token(T.ps, {"Equal"})
    IN  CASE T.r.k # "Ok" -> T
          [] OTHER -> var_decl_stmt_end(T.r.v, m.matched,
                                        IF m.matched THEN expression(m.ps)
                                        ELSE [ps |-> m.ps, r |-> Ok(None)])

\* the push in the loop of Parser::block, D being what declaration()
\* returned
block_push(D, stmts) ==
    CASE D.r.k # "Ok" -> D
      [] OTHER -> block_loop(D.ps, Append(stmts, D.r.v))

\* the loop of Parser::block: r is Ok of the statements
block_loop(ps, stmts) ==
    CASE check(ps, "RightBrace") \/ parser_is_at_end(ps) ->
            [ps |-> ps, r |-> Ok(stmts)]
      [] OTHER -> block_push(declaration(ps), stmts)

\* the end of Parser::block, B being what the loop left
block_close(B) ==
    LET C == consume(B.ps, "RightBrace", "Expect '}' after block.")
    IN  CASE B.r.k # "Ok" -> B
          [] C.r.k # "Ok" -> C
          [] OTHER -> [ps |-> C.ps, r |-> B.r]

\* Parser::block
block(ps) == block_close(block_loop(ps, <<>>))

\* Parser::if_stmt after the else branch
if_stmt_else(condition, then_branch, else_branch) ==
    CASE else_branch.r.k # "Ok" -> else_branch
      [] OTHER -> [ps |-> else_branch.ps,
                   r |-> Ok(IfStmt(condition, then_branch,
                                   Some(else_branch.r.v)))]

\* Parser::if_stmt after the then branch
if_stmt_then(condition, then_branch) ==
    LET m == match_token(then_branch.ps, {"Else"})
    IN  CASE then_branch.r.k # "Ok" -> then_branch
          [] ~m.matched ->
                [ps |-> m.ps, r |-> Ok(IfStmt(condition, then_branch.r.v, None))]
          [] OTHER -> if_stmt_else(condition, then_branch.r.v, statement(m.ps))

\* Parser::if_stmt after the condition
if_stmt_condition(condition) ==
    LET R == consume(condition.ps, "RightParen", "Expect ')' after if condition.")
    IN  CASE condition.r.k # "Ok" -> condition
          [] R.r.k # "Ok" -> R
          [] OTHER -> if_stmt_then(condition.r.v, statement(R.ps))

\* Parser::if_stmt
if_stmt(ps) ==
    LET L == consume(ps, "LeftParen", "Expect '(' after 'if'.")
    IN  CASE L.r.k # "Ok" -> L
          [] OTHER -> if_stmt_condition(expression(L.ps))

\* a desugaring that runs the increment before the body
for_desugar_increment_first(initializer, condition, increment, body) ==
    LET b1 == IF IsSome(increment)
              THEN BlockStmt(<<ExpressionStmt(Unwrap(increment)), body>>)
              ELSE body
        b2 == IF IsSome(condition) THEN WhileStmt(Unwrap(condition), b1)
              ELSE WhileStmt(LiteralExpr(Boolean(TRUE)), b1)
    IN  IF IsSome(initializer) THEN BlockStmt(<<Unwrap(initializer), b2>>)
        ELSE b2

\* the end of Parser::for_stmt: the statement built from the three clauses
\* (each an Option) and the body
for_desugar(initializer, condition, increment, body) ==
    LET b1 == IF IsSome(increment)
              THEN BlockStmt(<<body, ExpressionStmt(Unwrap(increment))>>)
              ELSE body
        b2 == IF IsSome(condition) THEN WhileStmt(Unwrap(condition), b1)
              ELSE WhileStmt(LiteralExpr(Boolean(TRUE)), b1)
    IN  IF IsSome(initializer) THEN BlockStmt(<<Unwrap(initializer), b2>>)
        ELSE b2

\* Parser::for_stmt after the body
for_stmt_body(initializer, condition, increment, body) ==
    CASE body.r.k # "Ok" -> body
      [] OTHER -> [ps |-> body.ps,
                   r |-> Ok(for_desugar(initializer, condition, increment,
                                        body.r.v))]

\* Parser::for_stmt after the increment clause, U being what expression()
\* returned for it when there is one
for_stmt_increment(initializer, condition, has_increment, U) ==
    LET increment == IF has_increment THEN Some(U.r.v) ELSE None
        R == consume(U.ps, "RightParen", "Expect ')' after for clauses.")
    IN  CASE U.r.k # "Ok" -> U
          [] R.r.k # "Ok" -> R
          [] OTHER -> for_stmt_body(initializer, condition, increment,
                                    statement(R.ps))

\* Parser::for_stmt after the condition clause, Cn being what expression()
\* returned for it when there is one
for_stmt_condition(initializer, has_condition, Cn) ==
    LET condition == IF has_condition THEN Some(Cn.r.v) ELSE None
        S == consume(Cn.ps, "Semicolon", "Expect ';' after loop condition.")
        has_increment == ~check(S.ps, "RightParen")
    IN  CASE Cn.r.k # "Ok" -> Cn
          [] S.r.k # "Ok" -> S
          [] OTHER -> for_stmt_increment(initializer, condition, has_increment,
                                         IF has_increment THEN expression(S.ps)
                                         ELSE [ps |-> S.ps, r |-> Ok(None)])

\* Parser::for_stmt after the initializer clause, I being what
\* var_decl_stmt() or expression_stmt() returned for it when there is one
for_stmt_initializer(has_initializer, I) ==
    LET initializer == IF has_initializer THEN Some(I.r.v) ELSE None
        has_condition == ~check(I.ps, "Semicolon")
    IN  CASE I.r.k # "Ok" -> I
          [] OTHER -> for_stmt_condition(initializer, has_condition,
                                         IF has_condition THEN expression(I.ps)
                                         ELSE [ps |-> I.ps, r |-> Ok(None)])

\* Parser::for_stmt
for_stmt(ps) ==
    LET L == consume(ps, "LeftParen", "Expect '(' after 'for'.")
        ms == match_token(L.ps, {"Semicolon"})
        mv == match_token(L.ps, {"Var"})
    IN  CASE L.r.k # "Ok" -> L
          [] OTHER -> for_stmt_initializer(~ms.matched,
                        CASE ms.matched -> [ps |-> ms.ps, r |-> Ok(None)]
                          [] mv.matched -> var_decl_stmt(mv.ps)
                          [] OTHER -> expression_stmt(L.ps))

\* Parser::while_stmt after the body
while_stmt_body(condition, body) ==
    CASE body.r.k # "Ok" -> body
      [] OTHER -> [ps |-> body.ps, r |-> Ok(WhileStmt(condition, body.r.v))]

\* Parser::while_stmt after the condition
while_stmt_condition(condition) ==
    LET R == consume(condition.ps, "RightParen",
                     "Expect ')' after while condition.")
    IN  CASE condition.r.k # "Ok" -> condition
          [] R.r.k # "Ok" -> R
          [] OTHER -> while_stmt_body(condition.r.v, statement(R.ps))

\* Parser::while_stmt
while_stmt(ps) ==
    LET L == consume(ps, "LeftParen", "Expect '(' after 'while'.")
    IN  CASE L.r.k # "Ok" -> L
          [] OTHER -> while_stmt_condition(expression(L.ps))

\* the end of Parser::return_stmt, E being the value
return_stmt_end(token, E) ==
    LET C == consume(E.ps, "Semicolon", "Expect ';' after return value.")
    IN  CASE E.r.k # "Ok" -> E
          [] C.r.k # "Ok" -> C
          [] OTHER -> [ps |-> C.ps, r |-> Ok(ReturnStmt(token, E.r.v))]

\* Parser::return_stmt: the keyword is the token before the cursor
return_stmt(ps) ==
    LET m == match_token(ps, {"Semicolon"})
    IN  return_stmt_end(parser_previous(ps),
                        IF ~m.matched THEN expression(m.ps)
                        ELSE [ps |-> m.ps, r |-> Ok(LiteralExpr(Nil))])

\* the loop of Parser::fun_decl_stmt over the parameters: r is Ok of them
parameters_loop(ps, parameters) ==
    LET ps1 == IF Len(parameters) > MaxParameters
               THEN parser_error(ps, parser_peek(ps),
                                 "Can't have more than 255 parameters")
               ELSE ps
        P == consume(ps1, "Identifier", "Expect parameter name.")
        m == match_token(P.ps, {"Comma"})
    IN  CASE P.r.k # "Ok" -> P
          [] m.matched -> parameters_loop(m.ps, Append(parameters, P.r.v))
          [] OTHER -> [ps |-> m.ps, r |-> Ok(Append(parameters, P.r.v))]

\* Parser::fun_decl_stmt after the body
fun_decl_stmt_body(token, parameters, body) ==
    CASE body.r.k # "Ok" -> body
      [] OTHER -> [ps |-> body.ps,
                   r |-> Ok(FunctionStmt(token, parameters, BlockStmt(body.r.v)))]

\* Parser::fun_decl_stmt after the parameters, P being what their loop left
fun_decl_stmt_parameters(token, P) ==
    LET R == consume(P.ps, "RightParen", "Expect ')' after parameters.")
        B == consume(R.ps, "LeftBrace", "Expect '{' to start function body.")
    IN  CASE P.r.k # "Ok" -> P
          [] R.r.k # "Ok" -> R
          [] B.r.k # "Ok" -> B
          [] OTHER -> fun_decl_stmt_body(token, P.r.v, block(B.ps))

\* Parser::fun_decl_stmt with kind = "function"
fun_decl_stmt(ps) ==
    LET name == consume(ps, "Identifier", "Expect function name.")
        L == consume(name.ps, "LeftParen", "Expect '(' after function name.")
    IN  CASE name.r.k # "Ok" -> name
          [] L.r.k # "Ok" -> L
          [] OTHER -> fun_decl_stmt_parameters(name.r.v,
                        IF ~check(L.ps, "RightParen")
                        THEN parameters_loop(L.ps, <<>>)
                        ELSE [ps |-> L.ps, r |-> Ok(<<>>)])

\* Stmt::Block of what block() returned
block_stmt_of(B) ==
    CASE B.r.k # "Ok" -> B
      [] OTHER -> [ps |-> B.ps, r |-> Ok(BlockStmt(B.r.v))]

\* the block statement of Parser::statement: Ok(Stmt::Block(self.block()?))
block_stmt(ps) == block_stmt_of(block(ps))

\* Parser::statement
statement(ps) ==
    CASE check(ps, "For") -> for_stmt(parser_advance(ps))
      [] check(ps, "If") -> if_stmt(parser_advance(ps))
      [] check(ps, "Print") -> print_stmt(parser_advance(ps))
      [] check(ps, "While") -> while_stmt(parser_advance(ps))
      [] check(ps, "Return") -> return_stmt(parser_advance(ps))
      [] check(ps, "LeftBrace") -> block_stmt(parser_advance(ps))
      [] OTHER -> expression_stmt(ps)

\* Parser::declaration
declaration(ps) ==
    CASE check(ps, "Fun") -> fun_decl_stmt(parser_advance(ps))
      [] check(ps, "Var") -> var_decl_stmt(parser_advance(ps))
      [] OTHER -> statement(ps)

\* Parser::new
Parser_new(tokens) ==
    [tokens |-> tokens, current |-> 0, reported |-> <<>>,
     previous_at_zero |-> FALSE]

\* the body of the loop of Parser::parse on P = [ps, statements, status,
\* log], D being what declaration() returned: a declaration is pushed, or
\* its ParseError is given to error and the parser synchronizes; a panic
\* ends the parser.  log is a ghost: per turn the cursor before it (at), the
\* result, the cursor where declaration stopped (stop) and the cursor the
\* turn ends with (after)
parse_declared(P, D) ==
    LET entry(after) == [at |-> P.ps.current, r |-> D.r,
                         stop |-> D.ps.current, after |-> after]
    IN  CASE IsOk(D.r) ->
                [P EXCEPT !.ps = D.ps,
                          !.statements = Append(@, D.r.v),
                          !.log = Append(@, entry(D.ps.current))]
          [] IsErr(D.r) ->
                LET ps2 == synchronize(parser_error(D.ps, D.r.token, D.r.message))
                IN  [P EXCEPT !.ps = ps2, !.log = Append(@, entry(ps2.current))]
          [] OTHER ->
                [P EXCEPT !.ps = D.ps, !.status = "panicked",
                          !.log = Append(@, entry(D.ps.current))]

\* one turn of the loop of Parser::parse
parse_turn(P) == parse_declared(P, declaration(P.ps))

\* tokens as the scanner of the spec makes them: punctuation and keywords,
\* identifiers, numbers
TP(token_type) == Token(token_type, "", None)
TK(token_type, text) == Token(token_type, text, None)
TId(text) == Token("Identifier", text, None)
TNum(n) == Token("Number", ToString(n), Some(Number(n)))
TEof == Token("Eof", "", None)

\* SpecParse parses every token list of at most this many tokens before Eof
MaxToks == 3

TokAlphabet ==
    {TNum(1), TId("a"), TP("Equal"), TP("Semicolon"), TP("RightParen"),
     TK("Var", "var"), TK("Return", "return"), TK("Print", "print")}

\* 1, 1, ..., 1 with n arguments
ArgTokens(n) ==
    IF n = 0 THEN <<>>
    ELSE [k \in 1..(2 * n - 1) |-> IF k % 2 = 1 THEN TNum(1) ELSE TP("Comma")]

\* a(1, 1, ..., 1);
CallTokens(n) ==
    <<TId("a"), TP("LeftParen")>> \o ArgTokens(n)
        \o <<TP("RightParen"), TP("Semicolon")>>

\* the clauses of the for scenarios: the initializer is absent, a
\* declaration (var i = 1;) or an expression statement (i = 1;); the
\* condition is absent or i < 3; the increment is absent or i = i + 1
ForInitializers == {"none", "var", "expr"}
ForCombos == ForInitializers \X BOOLEAN \X BOOLEAN

InitializerTokens(init) ==
    CASE init = "var" -> <<TK("Var", "var"), TId("i"), TP("Equal"), TNum(1),
                           TP("Semicolon")>>
      [] init = "expr" -> <<TId("i"), TP("Equal"), TNum(1), TP("Semicolon")>>
      [] OTHER -> <<TP("Semicolon")>>

ConditionTokens(cond) ==
    IF cond THEN <<TId("i"), TP("Less"), TNum(3)>> ELSE <<>>

IncrementTokens(inc) ==
    IF inc THEN <<TId("i"), TP("Equal"), TId("i"), TP("Plus"), TNum(1)>>
    ELSE <<>>

\* the body B:  if (i > 2) stop; else print i = i + 1;
\* stop is not defined: reading it ends a loop that has no condition
BodyTokens ==
    <<TK("If", "if"), TP("LeftParen"), TId("i"), TP("Greater"), TNum(2),
      TP("RightParen"), TId("stop"), TP("Semicolon"),
      TK("Else", "else"), TK("Print", "print"), TId("i"), TP("Equal"),
      TId("i"), TP("Plus"), TNum(1), TP("Semicolon")>>

\* var i = 0; for (I; C; U) B print i;
ForTokens(combo) ==
    <<TK("Var", "var"), TId("i"), TP("Equal"), TNum(0), TP("Semicolon"),
      TK("For", "for"), TP("LeftParen")>>
    \o InitializerTokens(combo[1])
    \o ConditionTokens(combo[2]) \o <<TP("Semicolon")>>
    \o IncrementTokens(combo[3]) \o <<TP("RightParen")>>
    \o BodyTokens
    \o <<TK("Print", "print"), TId("i"), TP("Semicolon")>>

\* what SpecParse parses: a name, an argument of the scenario, the tokens
ParseInput(name, arg, tokens) ==
    [name |-> name, arg |-> arg, tokens |-> tokens \o <<TEof>>]

ParseInputs ==
    {ParseInput("tokens", 0, ts) :
        ts \in UNION {[1..n -> TokAlphabet] : n \in 0..MaxToks}}
    \cup {ParseInput("call", n, CallTokens(n)) :
            n \in {0, 1, MaxArguments, MaxArguments + 1, MaxArguments + 2}}
    \cup {ParseInput("for", combo, ForTokens(combo)) : combo \in ForCombos}
    \cup {\* { 1 = 2; }
          ParseInput("block", 0,
            <<TP("LeftBrace"), TNum(1), TP("Equal"), TNum(2), TP("Semicolon"),
              TP("RightBrace")>>),
          \* fun f() { return; }
          ParseInput("fun", 0,
            <<TK("Fun", "fun"), TId("f"), TP("LeftParen"), TP("RightParen"),
              TP("LeftBrace"), TK("Return", "return"), TP("Semicolon"),
              TP("RightBrace")>>),
          \* (1; print;
          ParseInput("two", 0,
            <<TP("LeftParen"), TNum(1), TP("Semicolon"),
              TK("Print", "print"), TP("Semicolon")>>),
          \* 1 1; print;
          ParseInput("two", 1,
            <<TNum(1), TNum(1), TP("Semicolon"),
              TK("Print", "print"), TP("Semicolon")>>),
          \* for (var i = 0; i < 3; i = i + 1) print i;
          ParseInput("example", 0,
            <<TK("For", "for"), TP("LeftParen"),
              TK("Var", "var"), TId("i"), TP("Equal"), TNum(0), TP("Semicolon"),
              TId("i"), TP("Less"), TNum(3), TP("Semicolon"),
              TId("i"), TP("Equal"), TId("i"), TP("Plus"), TNum(1),
              TP("RightParen"),
              TK("Print", "print"), TId("i"), TP("Semicolon")>>),
          \* print (1);
          ParseInput("group", 0,
            <<TK("Print", "print"), TP("LeftParen"), TNum(1), TP("RightParen"),
              TP("Semicolon")>>)}

\* Runner::run_file on a file whose tokens are the input: the Interpreter is
\* made, the scanner found no error, Parser::new(tokens) and parse() begins
InitParse ==
    /\ session = <<>>
    /\ mode = "file"
    /\ pc = "parse"
    /\ source = NoSource
    /\ had_error = FALSE
    /\ had_runtime_error = FALSE
    /\ statements = <<>>
    /\ ip = 0
    /\ istate = Interpreter_new
    /\ exit_code = -1
    /\ lines = 0
    /\ stage = {"scan"}
    /\ raised = <<>>
    /\ eheap = <<>>
    /\ eop = [op |-> "none"]
    /\ scanner = NoScanner
    /\ \E input \in ParseInputs :
          parser = [name |-> input.name, arg |-> input.arg,
                    ps |-> Parser_new(input.tokens), statements |-> <<>>,
                    status |-> "parsing", log |-> <<>>]
    /\ eqop = [op |-> "none"]

\* one turn of the loop of Parser::parse; ErrorReporter::error sets has_error
ParseDeclaration ==
    /\ pc = "parse"
    /\ ~parser_is_at_end(parser.ps)
    /\ parser' = parse_turn(parser)
    /\ had_error' = (had_error \/ Len(parser'.ps.reported) > 0)
    /\ pc' = IF parser'.status = "panicked" THEN "panicked" ELSE "parse"
    /\ UNCHANGED <<mode, source, had_runtime_error, statements, ip, istate,
                   exit_code, lines, stage, raised, eheap, eop, scanner, eqop, session>>

\* the loop of Parser::parse ends: parse returns the statements to run
ParseReturns ==
    /\ pc = "parse"
    /\ parser_is_at_end(parser.ps)
    /\ parser' = [parser EXCEPT !.status = "returned"]
    /\ statements' = parser.statements
    /\ stage' = stage \cup {"parse"}
    /\ pc' = "parsed"
    /\ UNCHANGED <<mode, source, had_error, had_runtime_error, ip, istate,
                   exit_code, lines, raised, eheap, eop, scanner, eqop, session>>

NextParse ==
    \/ ParseDeclaration
    \/ ParseReturns
    \/ RunReturnsEarly
    \/ Interpret
    \/ InterpretStmt
    \/ InterpretDone
    \/ RunFileExit

SpecParse == InitParse /\ [][NextParse]_vars

-----------------------------------------------------------------------------
(* The evaluator on families of small programs: every program begins with  *)
(* the same declarations, and ends with one statement built from operands  *)
(* of every kind of Object                                                 *)

\* a call expression of a program has at most this many arguments
MaxArgs == 3

False == LiteralExpr(Boolean(FALSE))
NilLit == LiteralExpr(Nil)

\* fun f(a, b) { print "body"; }  var t = 0;  var u = 0;
EvalPrelude ==
    <<Fun("f", <<"a", "b">>, <<PrintStmt(Str("body"))>>),
      Var("t", Num(0)),
      Var("u", Num(0))>>

\* operands without an effect: a literal of every kind, the native function
\* and the user function
EvalOperands ==
    {Num(n) : n \in 0..MaxVal}
    \cup {Str("a"), True, False, NilLit, V("clock"), V("f")}

\* right operands with an effect: an assignment, an undefined variable, a call
EvalEffects == {Set("t", Num(1)), V("y"), CallE(V("f"), <<Num(1), Num(2)>>)}

\* arguments: assignments that tell their order, and an undefined variable
ArgExprs == {Set("t", Num(1)), Set("t", Num(2)), Set("u", Num(1)), V("y")}
ArgLists == UNION {[1..k -> ArgExprs] : k \in 0..MaxArgs}

\* callees: values that cannot be called, the two kinds of function, and an
\* undefined variable
Callees == {Num(1), Str("a"), NilLit, V("f"), V("clock"), V("y")}

\* initializers that raise
FailingInitializers ==
    {V("y"), Bin(Num(1), "Minus", Str("a")), CallE(Num(1), <<>>),
     Set("y", Num(1)), CallE(V("f"), <<>>)}

BinaryOperators ==
    {"Plus", "Minus", "Star", "Slash", "Greater", "GreaterEqual", "Less",
     "LessEqual"}

\* var r = a or b;   var r = a and b;
ProgLogical(op, a, b) ==
    EvalPrelude \o <<Var("r", LogicalExpr(a, Tok(op), b))>>

\* callee(args);  print "after";
ProgCall(callee, args) ==
    EvalPrelude \o <<ExpressionStmt(CallE(callee, args)), PrintStmt(Str("after"))>>

\* a op b;  var r = a op b;
ProgBinary(op, a, b) ==
    EvalPrelude \o <<ExpressionStmt(Bin(a, op, b)), Var("r", Bin(a, op, b))>>

\* var x = e;  where x is new, where x is a global already, and in a block
\* inside the scope of a global x
ProgVarFail(kind, e) ==
    CASE kind = "fresh" -> EvalPrelude \o <<Var("x", e)>>
      [] kind = "redeclare" -> EvalPrelude \o <<Var("x", Num(1)), Var("x", e)>>
      [] kind = "inner" ->
            EvalPrelude \o <<Var("x", Num(1)), BlockStmt(<<Var("x", e)>>)>>

EvalCase(family, op, a, b, args) ==
    [family |-> family, op |-> op, a |-> a, b |-> b, args |-> args]

EvalScenarios ==
    {Scenario("logical", EvalCase("logical", op, a, b, <<>>), ProgLogical(op, a, b)) :
        op \in {"Or", "And"}, a \in EvalOperands, b \in EvalEffects}
    \cup {Scenario("call", EvalCase("call", "", callee, NilLit, args),
                   ProgCall(callee, args)) :
            callee \in Callees, args \in ArgLists}
    \cup {Scenario("binary", EvalCase("binary", op, a, b, <<>>), ProgBinary(op, a, b)) :
            op \in BinaryOperators, a \in EvalOperands, b \in EvalOperands}
    \cup {Scenario("var_fail", EvalCase("var_fail", kind, e, NilLit, <<>>),
                   ProgVarFail(kind, e)) :
            kind \in {"fresh", "redeclare", "inner"},
            e \in FailingInitializers \cup {Num(2)}}

InitEval ==
    /\ session = <<>>
    /\ mode = "file"
    /\ pc = "run_file"
    /\ source \in {Source(sc, FALSE, FALSE) : sc \in EvalScenarios}
    /\ had_error = FALSE
    /\ had_runtime_error = FALSE
    /\ statements = <<>>
    /\ ip = 0
    /\ istate = Interpreter_new
    /\ exit_code = -1
    /\ lines = 0
    /\ stage = {}
    /\ raised = <<>>
    /\ eheap = <<>>
    /\ eop = [op |-> "none"]
    /\ scanner = NoScanner
    /\ parser = NoParser
    /\ eqop = [op |-> "none"]

NextEval ==
    \/ RunFile
    \/ Scan
    \/ Parse
    \/ Interpret
    \/ InterpretStmt
    \/ InterpretDone
    \/ RunFileExit

SpecEval == InitEval /\ [][NextEval]_vars

-----------------------------------------------------------------------------
(* The prompt alone: run_prompt reads lines that declare, change and print *)
(* one global, some of them with a lexical or a syntactic error            *)

\* SpecPrompt reads at most this many non-empty lines
MaxSession == 3

\* var a = 1;
LineDeclare == <<Var("a", Num(1))>>
\* a = a + 1;
LineChange == <<ExpressionStmt(Set("a", Bin(V("a"), "Plus", Num(1))))>>
\* print a;
LinePrint == <<PrintStmt(V("a"))>>

\* a line is typed as it should be, with a char the scanner rejects, or with
\* a token the parser rejects
SessionLines ==
    {Source(sc, typed = "lexical_error", typed = "syntax_error") :
        sc \in {Scenario("declare", 0, LineDeclare),
                Scenario("change", 0, LineChange),
                Scenario("print", 0, LinePrint)},
        typed \in {"well", "lexical_error", "syntax_error"}}

\* a prompt that makes a new Interpreter for each line
run_with_new_interpreter(interpreter) == Interpreter_new

\* self.run(line, &mut interpreter): each line is run by the Interpreter that
\* run_prompt made before its loop
run_with_interpreter(interpreter) == interpreter

InitPrompt ==
    /\ session = <<>>
    /\ mode = "prompt"
    /\ pc = "run_prompt"
    /\ source = NoSource
    /\ had_error = FALSE
    /\ had_runtime_error = FALSE
    /\ statements = <<>>
    /\ ip = 0
    /\ istate = Interpreter_new
    /\ exit_code = -1
    /\ lines = 0
    /\ stage = {}
    /\ raised = <<>>
    /\ eheap = <<>>
    /\ eop = [op |-> "none"]
    /\ scanner = NoScanner
    /\ parser = NoParser
    /\ eqop = [op |-> "none"]

\* run_prompt reads a line that is not empty and calls run with it
ReadSessionLine ==
    /\ pc = "read"
    /\ lines < MaxSession
    /\ \E line \in SessionLines :
          /\ source' = line
          /\ session' = Append(session, line)
    /\ lines' = lines + 1
    /\ pc' = "scan"
    /\ ip' = 0
    /\ statements' = <<>>
    /\ stage' = {}
    /\ raised' = <<>>
    /\ istate' = [run_with_interpreter(istate) EXCEPT !.log = <<>>]
    /\ UNCHANGED <<mode, had_error, had_runtime_error, exit_code, eheap, eop,
                   scanner, parser, eqop>>

NextPrompt ==
    \/ RunPrompt
    \/ ReadSessionLine
    \/ ReadEmptyLine
    \/ Scan
    \/ Parse
    \/ RunReturnsEarly
    \/ Interpret
    \/ InterpretStmt
    \/ InterpretDone
    \/ PromptReset

SpecPrompt == InitPrompt /\ [][NextPrompt]_vars

-----------------------------------------------------------------------------
(* The claims *)

Log == istate.log
Terminal == pc \in {"exited", "panicked"}
Clean == ~source.lexical_error /\ ~source.syntax_error
Display(n) == object_display(Number(n))

\* C1: when a user function is called, the scope that holds its parameters
\* encloses the scope the function captured when it was declared (its
\* closure), not the global scope and not the caller's scope.
CE_C1_CallScopeEnclosesClosure ==
    \A i \in DOMAIN Log :
        Log[i].ev = "call" => Log[i].enclosing = Log[i].closure

\* C2: the captured scope is shared: for the counter program (make() returns
\* inc, which does i = i + 1; return i) the three calls of the returned
\* function yield 1, 2, 3, so the finished run has printed 1, 2 and 3.
CE_C2_CounterCounts ==
    (mode = "file" /\ source.name = "counter" /\ Clean /\ Terminal)
        => istate.out = <<Display(1), Display(2), Display(3)>>

\* C3: a runtime error (not a return) raised in a user function's body
\* propagates out of the call: the call fails with that same error, and the
\* error reaches the top-level driver, which reports it and sets
\* had_runtime_error.
CE_C3_BodyErrorPropagates ==
    /\ \A i \in DOMAIN Log :
          (Log[i].ev = "call_exit" /\ IsRealError(Log[i].body))
              => Log[i].r = Log[i].body
    /\ (raised # <<>> /\ pc = "panicked") => had_runtime_error

\* the event that follows the end of a call at depth d belongs to the frame
\* that made the call, and that frame is not unwinding with a return
InCallerFrame(e, d) ==
    /\ e.depth = IF e.ev = "call" THEN d ELSE d - 1
    /\ e.ev = "block_exit" => e.how # "return"
    /\ e.ev = "call_exit" => ~IsReturnCarrier(e.body)

\* C4: a return executed at any nesting depth of blocks, ifs and loops in a
\* function body ends exactly that one call: nothing but the exits of the
\* enclosing blocks happens before the call ends, the call evaluates to the
\* returned value, and the calling frame goes on; a call whose body
\* completes without a return evaluates to Nil.
T_C4_ReturnEndsOneCall ==
    /\ \A i \in DOMAIN Log :
          (Log[i].ev = "return" /\ Log[i].depth > 0) =>
              \E j \in (i + 1)..Len(Log) :
                  /\ Log[j].ev = "call_exit"
                  /\ Log[j].depth = Log[i].depth
                  /\ Log[j].r = Ok(Log[i].v)
                  /\ \A k \in (i + 1)..(j - 1) :
                        Log[k].ev = "block_exit" /\ Log[k].how = "return"
                  /\ j < Len(Log) => InCallerFrame(Log[j + 1], Log[i].depth)
    /\ \A j \in DOMAIN Log :
          (Log[j].ev = "call_exit" /\ IsOk(Log[j].body)) => Log[j].r = Ok(Nil)

\* a finished run in which a return three blocks deep ended a call made from
\* another call, and in which a call completed without a return
W_C4_NestedReturn ==
    /\ pc = "ret"
    /\ \E i \in DOMAIN Log :
          /\ Log[i].ev = "return" /\ Log[i].depth = 2
          /\ i + 4 <= Len(Log)
          /\ \A k \in (i + 1)..(i + 4) : Log[k].ev = "block_exit"
    /\ \E j \in DOMAIN Log :
          Log[j].ev = "call_exit" /\ IsOk(Log[j].body) /\ Log[j].r = Ok(Nil)

\* C5: in file mode the exit code follows the error flags: 65 when scanning
\* or parsing reported an error, 70 when evaluation raised a runtime error,
\* 0 otherwise.
CE_C5_ExitCodes ==
    (mode = "file" /\ Terminal) =>
        exit_code = IF had_error THEN ExitDataErr
                    ELSE IF raised # <<>> THEN ExitSoftware
                    ELSE ExitOk

\* C6: the stages of one run are ordered and gated by had_error: the parser
\* is not started when scanning reported an error, the evaluator is not
\* started when scanning or parsing reported one, and no statement of a
\* source with a lexical or syntactic error is executed.
T_C6_StagesGated ==
    /\ "parse" \in stage => ("scan" \in stage /\ ~source.lexical_error)
    /\ "interpret" \in stage => ("parse" \in stage /\ Clean /\ ~had_error)
    /\ ~Clean => (ip = 0 /\ Log = <<>> /\ pc # "interpret")

\* a run whose source has a syntactic error has returned after parsing
W_C6_StoppedAfterParse ==
    /\ pc = "ret"
    /\ source.syntax_error
    /\ source.stmts # <<>>
    /\ stage = {"scan", "parse"}
    /\ had_error

\* C7: when a top-level statement raises a runtime error, had_runtime_error
\* is set and no top-level statement after it is executed.
CE_C7_RuntimeErrorStopsProgram ==
    raised # <<>> => (had_runtime_error /\ pc = "panicked")

\* C8: whenever execution of a block or of a function body ends, normally,
\* by a runtime error or by a return, the current scope is again the scope
\* that was current just before the block or call was entered.
T_C8_ScopeRestored ==
    /\ \A i \in DOMAIN Log :
          Log[i].ev \in {"block_exit", "call_exit"} => Log[i].env = Log[i].prev
    /\ istate.env = Globals

\* one run in which a block inside another block ended normally, one ended
\* by a return and one by a runtime error
W_C8_AllExits ==
    /\ \E i \in DOMAIN Log :
          Log[i].ev = "block_exit" /\ Log[i].how = "normal" /\ Log[i].prev # Globals
    /\ \E i \in DOMAIN Log :
          Log[i].ev = "block_exit" /\ Log[i].how = "return" /\ Log[i].prev # Globals
    /\ \E i \in DOMAIN Log :
          Log[i].ev = "block_exit" /\ Log[i].how = "error" /\ Log[i].prev # Globals

\* the top-level statements that have run to their end
Executed == SubSeq(statements, 1, IF pc = "panicked" THEN ip - 1 ELSE ip)

\* C9: a variable declared with var inside a block is not visible after the
\* block (reading it fails as undefined, or yields the outer binding of the
\* same name unchanged), while an assignment inside a block to a name that
\* only an outer scope declares changes that outer binding and creates no
\* binding in the block's scope.
T_C9_BlockIsolation ==
    /\ mode = "file" =>
          DOMAIN istate.heap[Globals].values
              = {"clock"} \cup DirectlyDeclared(Executed)
    /\ \A i \in DOMAIN Log :
          Log[i].ev = "block_exit" => Log[i].names \subseteq Log[i].declares
    /\ (mode = "file" /\ source.name = "shadow" /\ Clean /\ pc = "ret") =>
          /\ istate.out = <<Display(source.v), Display(1)>>
          /\ istate.heap[Globals].values["a"] = Some(Number(1))
    /\ (mode = "file" /\ source.name = "assign_outer" /\ Clean /\ pc = "ret") =>
          /\ istate.out = <<Display(source.v)>>
          /\ istate.heap[Globals].values["a"] = Some(Number(source.v))
          /\ \A s \in DOMAIN istate.heap :
                s # Globals => "a" \notin DOMAIN istate.heap[s].values
    /\ (mode = "file" /\ source.name = "leak" /\ Clean /\ ip = 2) =>
          /\ pc = "panicked"
          /\ istate.out = <<Display(source.v)>>
          /\ raised = <<RuntimeError(None, Ident("b"), "Undefined variable 'b'.")>>

\* the run of var a = 1; { var b = 0; { a = 2; } } print a; has ended
W_C9_AssignedOuter ==
    /\ mode = "file"
    /\ source.name = "assign_outer"
    /\ source.v = 2
    /\ Clean
    /\ pc = "ret"
    /\ Len(istate.heap) = 3
    /\ istate.out = <<Display(2)>>

\* the scopes get(s, ..) looks at, innermost first
RECURSIVE ChainOf(_, _)
ChainOf(heap, s) ==
    IF s = 0 THEN <<>> ELSE <<s>> \o ChainOf(heap, heap[s].enclosing)

\* C10: Environment.get(name) looks at the innermost scope of the chain that
\* has a binding for name: it returns the value when the binding is bound,
\* fails with 'Uninitialized variable' when it is declared without a value
\* (whatever the outer scopes hold), and fails with 'Undefined variable'
\* exactly when no scope of the chain has a binding for name.
T_C10_GetInnermost ==
    eop.op = "get" =>
        LET chain == ChainOf(eheap, eop.s)
            holders == {i \in DOMAIN chain :
                            eop.name \in DOMAIN eheap[chain[i]].values}
        IN  IF holders = {}
            THEN /\ eop.r.k = "Err"
                 /\ eop.r.message = "Undefined variable '" \o eop.name \o "'."
            ELSE LET first == CHOOSE i \in holders : \A j \in holders : i <= j
                     cell == eheap[chain[first]].values[eop.name]
                 IN  IF cell # <<>>
                     THEN eop.r = Ok(cell[1])
                     ELSE /\ eop.r.k = "Err"
                          /\ eop.r.message
                               = "Uninitialized variable '" \o eop.name \o "'."

\* a get on a scope that declares the name without a value, inside a scope
\* that binds it
W_C10_UninitializedShadowsBound ==
    /\ eop.op = "get"
    /\ eheap[eop.s].enclosing # 0
    /\ eop.name \in DOMAIN eheap[eop.s].values
    /\ eheap[eop.s].values[eop.name] = <<>>
    /\ eop.name \in DOMAIN eheap[eheap[eop.s].enclosing].values
    /\ eheap[eheap[eop.s].enclosing].values[eop.name] # <<>>
    /\ eop.r.k = "Err"

\* C11: Environment.assign(name, value) replaces the binding of name in the
\* innermost scope of the chain that has one (a binding declared without a
\* value included), returns the value and changes nothing else in any scope;
\* when no scope of the chain has a binding for name it fails with
\* 'Undefined variable' and leaves every scope as it was: it never declares.
T_C11_AssignInnermost ==
    eop.op = "assign" =>
        LET chain == ChainOf(eop.before, eop.s)
            holders == {i \in DOMAIN chain :
                            eop.name \in DOMAIN eop.before[chain[i]].values}
        IN  IF holders = {}
            THEN /\ eop.r.k = "Err"
                 /\ eop.r.value = None
                 /\ eop.r.message = "Undefined variable '" \o eop.name \o "'."
                 /\ eheap = eop.before
            ELSE LET first == CHOOSE i \in holders : \A j \in holders : i <= j
                     target == chain[first]
                 IN  /\ eop.r = Ok(eop.value)
                     /\ Len(eheap) = Len(eop.before)
                     /\ \A s \in DOMAIN eheap :
                           /\ eheap[s].enclosing = eop.before[s].enclosing
                           /\ DOMAIN eheap[s].values = DOMAIN eop.before[s].values
                           /\ \A n \in DOMAIN eheap[s].values :
                                 eheap[s].values[n] =
                                     IF s = target /\ n = eop.name
                                     THEN Some(eop.value)
                                     ELSE eop.before[s].values[n]

\* an assign made on an inner scope that holds another name but not this one
\* reached a binding without a value in the enclosing scope and gave it the
\* value
W_C11_AssignedThroughChain ==
    /\ eop.op = "assign"
    /\ Len(ChainOf(eop.before, eop.s)) = 2
    /\ eop.name \notin DOMAIN eop.before[eop.s].values
    /\ eop.name \in DOMAIN eop.before[eop.before[eop.s].enclosing].values
    /\ eop.before[eop.before[eop.s].enclosing].values[eop.name] = None
    /\ eheap[eop.before[eop.s].enclosing].values[eop.name] = Some(eop.value)
    /\ \E n \in DOMAIN eop.before[eop.s].values : n # eop.name

\* C20: == and != never raise an error; == is reflexive on every value that
\* is not Number(NaN), a function value compared with itself included;
\* Nil == Nil is true; values of different kinds are never equal; and != is
\* the negation of ==.
CE_C20_EqualityReflexive ==
    /\ IsSome(eqop.eq) =>
          /\ IsOk(Unwrap(eqop.eq))
          /\ eqop.left = eqop.right => Unwrap(eqop.eq) = Ok(Boolean(TRUE))
          /\ eqop.left.t # eqop.right.t => Unwrap(eqop.eq) = Ok(Boolean(FALSE))
    /\ IsSome(eqop.ne) => IsOk(Unwrap(eqop.ne))
    /\ (IsSome(eqop.eq) /\ IsSome(eqop.ne)) =>
          Unwrap(eqop.ne) = Ok(Boolean(~Unwrap(eqop.eq).v.b))

\* C12: scan_tokens is total: whatever the text (chars of more than one
\* byte, numeric chars that are not ASCII digits, unterminated strings and
\* unexpected chars included) it does not abort, and the token list it
\* returns ends with the Eof token.
CE_C12_ScannerTotal ==
    /\ scanner.status # "panicked"
    /\ scanner.status = "done" =>
          /\ scanner.tokens # <<>>
          /\ scanner.tokens[Len(scanner.tokens)].token_type = "Eof"

\* the newline chars of a text
Newlines(chars) == Cardinality({i \in DOMAIN chars : chars[i] = "\n"})

\* C13: the Eof token that ends the list carries the final line: its line is
\* the scanner's line counter at the end of the input, which is 1 plus the
\* number of newline chars consumed.
CE_C13_EofLine ==
    scanner.status = "done" =>
        /\ scanner.line = 1 + Newlines(scanner.source)
        /\ scanner.tokens[Len(scanner.tokens)].line = scanner.line

\* the token types of the keyword table
KeywordTypes ==
    {"And", "Class", "Else", "False", "Fun", "For", "If", "Nil", "Or",
     "Print", "Return", "Super", "This", "True", "Var", "While"}

\* C14: every Identifier token and every keyword token carries as its lexeme
\* the source text between start and current that produced it, so two
\* identifiers that are spelled differently have different lexemes.
CE_C14_IdentifierLexeme ==
    \A i \in DOMAIN scanner.tokens :
        scanner.tokens[i].token_type \in {"Identifier"} \cup KeywordTypes =>
            scanner.tokens[i].lexeme =
                Concat(SubSeq(scanner.source, scanner.spans[i].start + 1,
                              scanner.spans[i].current))

\* the turns of Parser::parse so far, the tokens the parser reads and the
\* messages it reported
ParseLog == parser.log
ParseTokens == parser.ps.tokens
Reported == [k \in DOMAIN parser.ps.reported |-> parser.ps.reported[k].message]
IsParseErr(r, message) == r.k = "Err" /\ r.message = message

\* C15: when the left-hand side of '=' is not a Variable, the parser reports
\* "Invalid assignment target." without panic-mode synchronization: no token
\* is discarded because of the error and the enclosing statement goes on
\* being parsed, so { 1 = 2; } is one block statement with one report.
CE_C15_InvalidTargetNoSync ==
    /\ parser.status # "none" =>
          \A k \in DOMAIN ParseLog :
              IsParseErr(ParseLog[k].r, "Invalid assignment target.") =>
                  ParseLog[k].after = ParseLog[k].stop
    /\ (parser.status = "returned" /\ parser.name = "block") =>
          /\ Reported = <<"Invalid assignment target.">>
          /\ Len(parser.statements) = 1
          /\ parser.statements[1].s = "Block"

\* C16: the tokens of  return;  parse to Return(keyword, Literal(Nil)) and
\* exactly those two tokens are read; the tokens of  return expr;  parse to
\* Return(keyword, expr).
CE_C16_ReturnWithoutValue ==
    parser.status # "none" =>
        \A k \in DOMAIN ParseLog :
            LET at == ParseLog[k].at
                tok(j) == ParseTokens[at + j]
            IN  /\ (/\ tok(1).token_type = "Return"
                    /\ tok(2).token_type = "Semicolon") =>
                       /\ ParseLog[k].r = Ok(ReturnStmt(tok(1), LiteralExpr(Nil)))
                       /\ ParseLog[k].after = at + 2
                /\ (/\ tok(1).token_type = "Return"
                    /\ tok(2).token_type = "Number"
                    /\ tok(3).token_type = "Semicolon") =>
                       /\ ParseLog[k].r =
                            Ok(ReturnStmt(tok(1),
                                          LiteralExpr(Unwrap(tok(2).literal))))
                       /\ ParseLog[k].after = at + 3

\* C17: for every token list ending in Eof, parse() returns: every failed
\* production is a reported ParseError followed by synchronization, a
\* grouping without its ')' included, and a later erroneous statement of the
\* same input is reported too.
CE_C17_ParseAlwaysReturns ==
    /\ parser.status # "panicked"
    /\ parser.status = "returned" =>
          /\ \A k \in DOMAIN ParseLog : ParseLog[k].r.k \in {"Ok", "Err"}
          /\ Len(Reported) >= Cardinality({k \in DOMAIN ParseLog :
                                              ParseLog[k].r.k = "Err"})
          /\ parser.name = "two" => Len(Reported) = 2

\* C18: a call with more than 255 arguments always produces the diagnostic
\* "Can't have more than 255 arguments." and no call expression; a call with
\* at most 255 arguments never produces it.
CE_C18_ArgumentLimit ==
    (parser.status = "returned" /\ parser.name = "call") =>
        LET diagnosed ==
                \E k \in DOMAIN Reported :
                    Reported[k] = "Can't have more than 255 arguments."
        IN  /\ diagnosed <=> parser.arg > MaxArguments
            /\ diagnosed => parser.statements = <<>>
            /\ ~diagnosed =>
                  /\ Len(parser.statements) = 1
                  /\ Len(parser.statements[1].expr.args) = parser.arg

\* the clauses and the body of the for scenarios as expressions and
\* statements, and the program  var i = 0; { I; while (C) { B; U; } } print i;
\* with the clauses the scenario leaves out left out and an absent C true
VarI == VariableExpr(TId("i"))
ClauseI(init) ==
    IF init = "var" THEN VarDeclaration(TId("i"), Some(LiteralExpr(Number(1))))
    ELSE ExpressionStmt(AssignExpr(TId("i"), LiteralExpr(Number(1))))
ClauseC == BinaryExpr(VarI, TP("Less"), LiteralExpr(Number(3)))
ClauseU ==
    AssignExpr(TId("i"), BinaryExpr(VarI, TP("Plus"), LiteralExpr(Number(1))))
BodyB ==
    IfStmt(BinaryExpr(VarI, TP("Greater"), LiteralExpr(Number(2))),
           ExpressionStmt(VariableExpr(TId("stop"))),
           Some(PrintStmt(ClauseU)))
WhileForm(combo) ==
    BlockStmt(
        (IF combo[1] = "none" THEN <<>> ELSE <<ClauseI(combo[1])>>)
        \o <<WhileStmt(IF combo[2] THEN ClauseC ELSE LiteralExpr(Boolean(TRUE)),
                       BlockStmt(<<BodyB>>
                                 \o (IF combo[3] THEN <<ExpressionStmt(ClauseU)>>
                                     ELSE <<>>)))>>)
WhileProgram(combo) ==
    <<VarDeclaration(TId("i"), Some(LiteralExpr(Number(0)))),
      WhileForm(combo),
      PrintStmt(VarI)>>
\* what a fresh interpreter makes of that program
WhileRun(combo) == execute_stmts(WhileProgram(combo), 1, Interpreter_new)
RunEnded == pc \in {"ret", "exited", "panicked"}

\* C19: the statement the parser builds for  for (I; C; U) B  behaves as
\* { I; while (C) { B; U; } }  for every combination of present and omitted
\* clauses: the for scenario parses without a report and its run ends as the
\* run of the while program does (same output, same runtime error or none,
\* same global variables), and  for (var i = 0; i < 3; i = i + 1) print i;
\* prints 0, 1, 2.
T_C19_ForBehavesAsWhile ==
    /\ parser.status # "none" /\ parser.name \in {"for", "example"} =>
          /\ ~had_error
          /\ parser.status # "panicked"
    /\ (parser.status # "none" /\ parser.name = "for" /\ RunEnded) =>
          LET W == WhileRun(parser.arg) IN
          /\ statements[1] = WhileProgram(parser.arg)[1]
          /\ statements[3] = WhileProgram(parser.arg)[3]
          /\ istate.out = W.st.out
          /\ (pc = "panicked") <=> ~IsOk(W.r)
          /\ raised = RaisedBy(W.r)
          /\ istate.heap[Globals].values = W.st.heap[Globals].values
    /\ (parser.status # "none" /\ parser.name = "example" /\ RunEnded) =>
          /\ istate.out = <<Display(0), Display(1), Display(2)>>
          /\ pc # "panicked"

\* a for loop with all three clauses has run: I declared i = 1 once, B
\* printed i = i + 1 once (2), U made it 3 and C ended the loop; the i
\* printed after the loop is the global one (0)
W_C19_ForWithAllClausesRan ==
    /\ parser.status = "returned"
    /\ parser.name = "for"
    /\ parser.arg = <<"var", TRUE, TRUE>>
    /\ pc = "exited"
    /\ statements[2] =
          BlockStmt(<<ClauseI("var"),
                      WhileStmt(ClauseC,
                                BlockStmt(<<BodyB, ExpressionStmt(ClauseU)>>))>>)
    /\ istate.out = <<Display(2), Display(0)>>


\* what SpecEval's programs leave behind
EvalDone == pc \in {"exited", "panicked"}
GlobalValues == istate.heap[Globals].values
GlobalOf(name) == GlobalValues[name]
HasGlobal(name) == name \in DOMAIN GlobalValues
Untouched == GlobalOf("t") = Some(Number(0)) /\ GlobalOf("u") = Some(Number(0))
Falsy(operand) == operand \in {False, NilLit}
\* the value of an operand of EvalOperands, read off the program text
OperandValue(operand) ==
    IF operand.e = "Literal" THEN operand.literal ELSE Unwrap(GlobalOf(operand.token.lexeme))
CallEvents == SelectSeq(Log, LAMBDA entry : entry.ev = "call")

\* C21: in a or b with a truthy, and in a and b with a falsy, b is never
\* evaluated (its assignment, its call and its error have no effect) and the
\* result is the value of a itself; in the other cases the result is what
\* evaluating b gives
C21_Decided ==
    \/ source.v.op = "Or" /\ ~Falsy(source.v.a)
    \/ source.v.op = "And" /\ Falsy(source.v.a)
T_C21 ==
    (EvalDone /\ source.name = "logical") =>
        IF C21_Decided
        THEN /\ pc = "exited"
             /\ raised = <<>>
             /\ Untouched
             /\ istate.out = <<>>
             /\ CallEvents = <<>>
             /\ GlobalOf("r") = Some(OperandValue(source.v.a))
        ELSE CASE source.v.b = Set("t", Num(1)) ->
                    /\ pc = "exited"
                    /\ GlobalOf("t") = Some(Number(1))
                    /\ GlobalOf("r") = Some(Number(1))
               [] source.v.b = V("y") ->
                    /\ pc = "panicked"
                    /\ Len(raised) = 1
                    /\ raised[1].message = "Undefined variable 'y'."
                    /\ ~HasGlobal("r")
               [] OTHER ->
                    /\ pc = "exited"
                    /\ Len(CallEvents) = 1
                    /\ istate.out = <<object_display(String("body"))>>
                    /\ GlobalOf("r") = Some(Nil)
W_C21 ==
    /\ EvalDone /\ source.name = "logical" /\ C21_Decided
    /\ source.v.op = "And" /\ source.v.a = NilLit /\ source.v.b = V("y")
    /\ GlobalOf("r") = Some(Nil)

\* C22: calling a value that is not Callable is a runtime error, and calling a
\* Callable with a number of arguments other than its arity is the runtime
\* error 'Expected N arguments but got M.'; in both cases no statement of a
\* function body is executed and no parameter scope is created
C22_ArgumentsEvaluate == \A k \in 1..Len(source.v.args) : source.v.args[k] # V("y")
C22_Arity == IF source.v.a = V("f") THEN 2 ELSE 0
C22_NotCallable == source.v.a \in {Num(1), Str("a"), NilLit}
C22_WrongArity ==
    source.v.a \in {V("f"), V("clock")} /\ Len(source.v.args) # C22_Arity
C22_Message ==
    IF C22_NotCallable
    THEN "Can only call functions or classes"
    ELSE "Expected " \o NatToString(C22_Arity) \o " arguments but got "
         \o NatToString(Len(source.v.args)) \o "."
T_C22 ==
    (EvalDone /\ source.name = "call" /\ C22_ArgumentsEvaluate
       /\ (C22_NotCallable \/ C22_WrongArity)) =>
        /\ pc = "panicked"
        /\ had_runtime_error
        /\ Len(raised) = 1
        /\ raised[1].k = "Err"
        /\ raised[1].value = None
        /\ raised[1].message = C22_Message
        /\ istate.out = <<>>
        /\ \A i \in 1..Len(Log) : Log[i].ev = "stmt" /\ Log[i].depth = 0
        /\ Len(istate.heap) = 1
W_C22 ==
    /\ EvalDone /\ source.name = "call" /\ C22_WrongArity
    /\ source.v.a = V("f") /\ Len(source.v.args) = 3
    /\ raised[1].message = "Expected 2 arguments but got 3."
    /\ Len(istate.heap) = 1

\* C26: a call evaluates its callee first, then its arguments from left to
\* right, and only then makes the callable check and the arity check: the
\* effects of all arguments have happened when a non-callable or an arity
\* error is raised, and an error of argument k keeps the arguments after k
\* from being evaluated
C26_Failing == {k \in 1..Len(source.v.args) : source.v.args[k] = V("y")}
\* the arguments that are evaluated: all of them, or those before the first
\* that fails
C26_Evaluated ==
    IF C26_Failing = {} THEN Len(source.v.args)
    ELSE (CHOOSE k \in C26_Failing : \A j \in C26_Failing : k <= j) - 1
C26_Assigning(name) ==
    {k \in 1..C26_Evaluated :
        source.v.args[k].e = "Assign" /\ source.v.args[k].token.lexeme = name}
\* the value the evaluated arguments leave in a global that began as 0
C26_Left(name) ==
    IF C26_Assigning(name) = {} THEN Number(0)
    ELSE source.v.args[CHOOSE k \in C26_Assigning(name) :
                          \A j \in C26_Assigning(name) : j <= k].value.literal
C26_UndefinedY ==
    /\ pc = "panicked"
    /\ Len(raised) = 1
    /\ raised[1].message = "Undefined variable 'y'."
T_C26 ==
    (EvalDone /\ source.name = "call") =>
        IF source.v.a = V("y")
        THEN C26_UndefinedY /\ Untouched
        ELSE /\ GlobalOf("t") = Some(C26_Left("t"))
             /\ GlobalOf("u") = Some(C26_Left("u"))
             /\ IF C26_Failing # {}
                THEN C26_UndefinedY
                ELSE IF C22_NotCallable \/ C22_WrongArity
                     THEN /\ pc = "panicked"
                          /\ Len(raised) = 1
                          /\ raised[1].message = C22_Message
                     ELSE pc = "exited" /\ raised = <<>>
W_C26 ==
    /\ EvalDone /\ source.name = "call"
    /\ source.v.a = Num(1)
    /\ source.v.args = <<Set("t", Num(1)), Set("t", Num(2)), Set("u", Num(1))>>
    /\ GlobalOf("t") = Some(Number(2))
    /\ GlobalOf("u") = Some(Number(1))
    /\ raised[1].message = "Can only call functions or classes"

\* C27: '+' never raises once both operands are evaluated: two Numbers are
\* added, and every other pair gives the String that concatenates the string
\* representations of the left and of the right operand (a Number in its
\* shortest form, a Boolean as true or false, Nil as nil); '-', '*', '/',
\* '>', '>=', '<' and '<=' raise when an operand is not a Number
C27_IsNumber(operand) == operand.e = "Literal" /\ operand.literal.t = "Number"
C27_IsCallable(operand) == operand.e = "Variable"
C27_Representation(operand) ==
    CASE operand = Num(0) -> "0"
      [] operand = Num(1) -> "1"
      [] operand = Num(2) -> "2"
      [] operand = Num(3) -> "3"
      [] operand = Str("a") -> "a"
      [] operand = True -> "true"
      [] operand = False -> "false"
      [] operand = NilLit -> "nil"
C27_BothNumbers == C27_IsNumber(source.v.a) /\ C27_IsNumber(source.v.b)
C27_Sum ==
    IF C27_BothNumbers
    THEN GlobalOf("r") = Some(Number(source.v.a.literal.n + source.v.b.literal.n))
    ELSE IF C27_IsCallable(source.v.a) \/ C27_IsCallable(source.v.b)
         THEN Unwrap(GlobalOf("r")).t = "String"
         ELSE GlobalOf("r") =
                Some(String(C27_Representation(source.v.a)
                            \o C27_Representation(source.v.b)))
T_C27 ==
    (EvalDone /\ source.name = "binary") =>
        IF source.v.op = "Plus"
        THEN /\ pc = "exited"
             /\ raised = <<>>
             /\ ~had_runtime_error
             /\ C27_Sum
        ELSE IF C27_BothNumbers
             THEN pc = "exited" /\ raised = <<>> /\ HasGlobal("r")
             ELSE /\ pc = "panicked"
                  /\ had_runtime_error
                  /\ Len(raised) = 1
                  /\ raised[1].k = "Err"
                  /\ raised[1].value = None
                  /\ raised[1].token.token_type = source.v.op
                  /\ ~HasGlobal("r")
W_C27 ==
    /\ EvalDone /\ source.name = "binary" /\ source.v.op = "Plus"
    /\ source.v.a = Num(1) /\ source.v.b = NilLit
    /\ GlobalOf("r") = Some(String("1nil"))

\* C30: when the initializer of var x = e; raises a runtime error, no binding
\* of x is made or replaced in any scope; and the evaluation of an expression
\* without an assignment and without a call changes no binding
RECURSIVE C30_Pure(_)
C30_Pure(expr) ==
    CASE expr.e \in {"Literal", "Variable"} -> TRUE
      [] expr.e \in {"Binary", "Logical"} -> C30_Pure(expr.left) /\ C30_Pure(expr.right)
      [] expr.e = "Unary" -> C30_Pure(expr.right)
      [] expr.e = "Grouping" -> C30_Pure(expr.expr)
      [] OTHER -> FALSE
\* the statement InterpretStmt is about to execute evaluates one expression and
\* does nothing more with its value than print it
C30_EvaluatesPure ==
    /\ pc = "interpret"
    /\ ip < Len(statements)
    /\ statements[ip + 1].s \in {"Expression", "Print"}
    /\ C30_Pure(statements[ip + 1].expr)
C30_Bindings(heap) == [i \in 1..Len(heap) |-> heap[i].values]
C30_XAsBefore ==
    \A i \in 1..Len(istate.heap) :
        IF i = Globals /\ source.v.op \in {"redeclare", "inner"}
        THEN istate.heap[i].values["x"] = Some(Number(1))
        ELSE "x" \notin DOMAIN istate.heap[i].values
C30_InitializerRaised ==
    /\ source.name = "var_fail"
    /\ source.v.a \in FailingInitializers
    /\ pc = "panicked"
T_C30 ==
    [][/\ (C30_InitializerRaised' => C30_XAsBefore')
       /\ (C30_EvaluatesPure =>
             C30_Bindings(istate'.heap) = C30_Bindings(istate.heap))]_vars
W_C30 ==
    /\ C30_InitializerRaised
    /\ source.v.op = "redeclare"
    /\ source.v.a = Set("y", Num(1))
    /\ GlobalOf("x") = Some(Number(1))
    /\ Len(raised) = 1

\* C24: print writes the string form of the value and a newline: a Number in
\* its shortest form, so that print 1 + 2; writes the line 3
CE_C24_PrintWritesShortestForm ==
    (mode = "file" /\ source.name = "add" /\ Clean /\ pc = "exited") =>
        istate.out = <<"3">>

\* C25: reset() sets had_error to false and leaves had_runtime_error as it
\* is; had_runtime_error is never cleared, and had_error, once set, stays set
\* until the next reset()
C25_ResetStep == pc = "ret" /\ mode = "prompt" /\ pc' = "read"
T_C25 ==
    [][/\ (had_runtime_error => had_runtime_error')
       /\ ((had_error /\ ~had_error') => C25_ResetStep)
       /\ (C25_ResetStep =>
             ~had_error' /\ had_runtime_error' = had_runtime_error)]_vars
W_C25 ==
    /\ mode = "prompt" /\ pc = "read" /\ lines = 1
    /\ source.syntax_error
    /\ ~had_error

\* C29: a return carrier never surfaces as an error, also when the return is
\* outside every function call: the reporter is not invoked with the carrier,
\* had_runtime_error is not set because of a return, and the driver does not
\* abort
CE_C29_TopLevelReturnIsNoError ==
    (mode = "file" /\ source.name = "top_level_return" /\ Clean) =>
        /\ ~had_runtime_error
        /\ pc # "panicked"
        /\ exit_code \in {-1, ExitOk}

\* C28: the cursor of the parser is an index of the token list at all times,
\* previous() is never called with the cursor at 0, every turn of the loop of
\* parse() (there is one only when the cursor is not at Eof) leaves the cursor
\* strictly further than it found it, and parse() terminates: it makes no
\* more turns than there are tokens before Eof
C28_CursorInBounds ==
    /\ 0 <= parser.ps.current
    /\ parser.ps.current < Len(parser.ps.tokens)
C28_TurnsAdvance ==
    /\ \A i \in 1..Len(parser.log) :
          /\ parser.log[i].at < parser.log[i].after
          /\ parser.log[i].at <= parser.log[i].stop
          /\ parser.log[i].stop <= parser.log[i].after
          /\ parser.ps.tokens[parser.log[i].at + 1].token_type # "Eof"
    /\ Len(parser.log) <= parser.ps.current
T_C28 ==
    /\ C28_CursorInBounds
    /\ ~parser.ps.previous_at_zero
    /\ C28_TurnsAdvance
W_C28 ==
    /\ parser.status = "returned"
    /\ parser.name = "tokens"
    /\ Len(parser.log) = 2
    /\ IsErr(parser.log[2].r)
    /\ parser.log[2].stop = parser.log[2].at
    /\ parser.log[2].after = parser.log[2].at + 1
    /\ parser.ps.current = Len(parser.ps.tokens) - 1

\* C23: at the prompt one evaluator and one global scope serve all lines: a
\* global that a line defined is read with the value last assigned to it on
\* every later line, also when lines in between had a scan or a parse error,
\* and such an error on a line does not keep a later correct line from being
\* evaluated
\* what the lines typed so far amount to, told from their text alone: the
\* value of a (-1 while it is not declared), the numbers printed, and whether
\* a line read a when it was not declared
C23_Start == [a |-> -1, printed |-> <<>>, undeclared |-> FALSE]
C23_After(told, line) ==
    CASE told.undeclared \/ line.lexical_error \/ line.syntax_error -> told
      [] line.name = "declare" -> [told EXCEPT !.a = 1]
      [] told.a = -1 -> [told EXCEPT !.undeclared = TRUE]
      [] line.name = "change" -> [told EXCEPT !.a = @ + 1]
      [] OTHER -> [told EXCEPT !.printed = Append(@, told.a)]
RECURSIVE C23_Told(_)
C23_Told(n) ==
    IF n = 0 THEN C23_Start ELSE C23_After(C23_Told(n - 1), session[n])
C23_Agrees(told) ==
    /\ Len(istate.heap) = 1
    /\ IF told.a = -1 THEN ~HasGlobal("a")
       ELSE HasGlobal("a") /\ GlobalOf("a") = Some(Number(told.a))
    /\ istate.out = [i \in 1..Len(told.printed) |-> Display(told.printed[i])]
=============================================================================
